---- MODULE Spec2Model ----
(***************************************************************************)
(* FuzzySearchTool of the recorder overlay                                 *)
(* (packages/injected/src/recorder/fuzzySearchTool.ts): the mode detector, *)
(* the text matcher, the strategy dispatcher, the debounce timer, the      *)
(* navigation state machine and the highlight / UI projection.             *)
(* Also the recorder configuration store (src/unnamed/part_000) and the    *)
(* tool that renders prev/next buttons (src/unnamed/part_001).             *)
(*                                                                         *)
(* Strings are sequences of one-character strings.  Elements of a document *)
(* are numbered 1..n in document (pre-) order; 0 is document.body.         *)
(***************************************************************************)
EXTENDS Integers, Sequences, FiniteSets, TLC

VARIABLES
  doc,            \* the page: [body, parent, text]
  ariaBinding,    \* window.__pw_parseAriaTemplate is exposed
  phase,          \* "constructed" | "installed" | "uninstalled"
  inputValue,     \* this._input.value
  timers,         \* the host's pending timeouts: set of [id, remaining]
  debounceTimer,  \* this._debounceTimer (0 = undefined)
  state,          \* this._state : SearchState
  counter,        \* this._counter.textContent
  noMatch,        \* 'no-match' in this._input.classList
  hasValue,       \* 'has-value' in this._container.classList
  hasResults,     \* 'has-results' in this._container.classList
  highlight,      \* entries held by the highlight overlay
  inflight,       \* _performSearchAsync invocations suspended at the aria binding
  calls,          \* what the strategies returned in the step just taken, if it ran any
  lastOp,         \* the handler that ran last ("detached": an input event with no listener)
  elapsed,        \* time since the last input event
  sched,          \* [burst, started]: input events of the current burst (1, or
                  \* 2 for two or more), and invocations started since the
                  \* last input event
  run,            \* [start, counter, count]: the current run of consecutive
                  \* next (or prev) operations
  config,         \* window.__pwRecorderConfig
  configCalls,    \* [called, customized, last, threw]: configureRecorder has
                  \* been called, and called with a customization, since the
                  \* last reset, the argument of its last call and whether
                  \* an exception left that call
  buttons,        \* [created, prevDisabled, nextDisabled]: this._prevButton and
                  \* this._nextButton of the tool that renders them, and
                  \* their disabled attributes
  textCache       \* this._textCache: the full text of the elements it has an
                  \* entry for.  It is followed where the page changes between
                  \* searches (SpecCache) and in SpecText; where the page is
                  \* fixed every search reads it with an empty cache and the
                  \* entries it leaves are not followed

vars == <<doc, ariaBinding, phase, inputValue, timers, debounceTimer, state,
          counter, noMatch, hasValue, hasResults, highlight, inflight, calls,
          lastOp, elapsed, sched, run, config, configCalls, buttons,
          textCache>>

-----------------------------------------------------------------------------
(* Bounds of the model *)

MaxNodes == 3       \* elements under body in the text-matcher documents
MaxInflight == 2    \* invocations suspended at the aria binding at once
TimeStep == 100     \* largest amount the clock advances in one step
MaxMatches == 10    \* matches of the search the two implementations of prev start from

(* setTimeout(() => this._performSearchAsync(), 150) *)
Delay == 150

-----------------------------------------------------------------------------
(* Characters and strings *)

LowerLetters ==
  <<"a","b","c","d","e","f","g","h","i","j","k","l","m",
    "n","o","p","q","r","s","t","u","v","w","x","y","z">>

UpperLetters ==
  <<"A","B","C","D","E","F","G","H","I","J","K","L","M",
    "N","O","P","Q","R","S","T","U","V","W","X","Y","Z">>

Digits == {"0","1","2","3","4","5","6","7","8","9"}

Range(s) == {s[i] : i \in DOMAIN s}

IsLetter(c) == c \in Range(LowerLetters) \cup Range(UpperLetters)

\* \w of a JavaScript regular expression
IsWordChar(c) == IsLetter(c) \/ c \in Digits \/ c = "_"

\* \s of a JavaScript regular expression, and the characters trim() strips
IsSpace(c) == c \in {" ", "\t", "\n"}

\* String.prototype.toLowerCase, character by character
LowerChar(c) ==
  IF c \in Range(UpperLetters)
  THEN LowerLetters[CHOOSE i \in DOMAIN UpperLetters : UpperLetters[i] = c]
  ELSE c

ToLowerCase(s) == [i \in DOMAIN s |-> LowerChar(s[i])]

\* String.prototype.startsWith
StartsWith(s, p) == Len(s) >= Len(p) /\ SubSeq(s, 1, Len(p)) = p

\* String.prototype.endsWith
EndsWith(s, p) == Len(s) >= Len(p) /\ SubSeq(s, Len(s) - Len(p) + 1, Len(s)) = p

\* String.prototype.includes
Includes(s, p) ==
  \E i \in 1..(Len(s) - Len(p) + 1) : SubSeq(s, i, i + Len(p) - 1) = p

\* index of the first character at or after i that is not white space
RECURSIVE SkipSpace(_, _)
SkipSpace(s, i) ==
  IF i <= Len(s) /\ IsSpace(s[i]) THEN SkipSpace(s, i + 1) ELSE i

\* index of the last character at or before i that is not white space
RECURSIVE SkipSpaceBack(_, _)
SkipSpaceBack(s, i) ==
  IF i >= 1 /\ IsSpace(s[i]) THEN SkipSpaceBack(s, i - 1) ELSE i

\* String.prototype.trim
Trim(s) == SubSeq(s, SkipSpace(s, 1), SkipSpaceBack(s, Len(s)))

\* String.prototype.slice(from) and slice(1, -1), with 0-based JavaScript indices
SliceFrom(s, from) == SubSeq(s, from + 1, Len(s))
SliceInner(s) == SubSeq(s, 2, Len(s) - 1)

-----------------------------------------------------------------------------
(* Mode detector: _detectSearchMode *)

\* /^-\s+\w+/.test(query)
YamlListRegex(q) ==
  /\ Len(q) >= 3
  /\ q[1] = "-"
  /\ IsSpace(q[2])
  /\ LET k == SkipSpace(q, 2) IN k <= Len(q) /\ IsWordChar(q[k])

\* the alternatives of /^(getBy|locator|page\.|#|\[|text=|role=|label=|placeholder=)/i
LocatorPrefixes ==
  { <<"g","e","t","b","y">>,
    <<"l","o","c","a","t","o","r">>,
    <<"p","a","g","e",".">>,
    <<"#">>,
    <<"[">>,
    <<"t","e","x","t","=">>,
    <<"r","o","l","e","=">>,
    <<"l","a","b","e","l","=">>,
    <<"p","l","a","c","e","h","o","l","d","e","r","=">> }

LocatorPrefixRegex(q) == \E p \in LocatorPrefixes : StartsWith(ToLowerCase(q), p)

\* index of the first character at or after i that is not in [a-z-] (flag i)
RECURSIVE SkipAttrName(_, _)
SkipAttrName(s, i) ==
  IF i <= Len(s) /\ (IsLetter(s[i]) \/ s[i] = "-")
  THEN SkipAttrName(s, i + 1)
  ELSE i

\* /^[a-z-]+\s*=/i.test(query)
AttributeRegex(q) ==
  LET k == SkipAttrName(q, 1)
      e == SkipSpace(q, k)
  IN  k > 1 /\ e <= Len(q) /\ q[e] = "="

\* locatorPatterns.some(p => p.test(query))
LocatorPatterns(q) == LocatorPrefixRegex(q) \/ AttributeRegex(q)

AriaPrefix == <<"/","a","r","i","a",":">>

DQuote == <<"\"">>
SQuote == <<"'">>

\* _detectSearchMode with the locator patterns tried before the YAML rule
DetectLocatorBeforeYaml(query) ==
  IF StartsWith(query, AriaPrefix)
  THEN [mode |-> "aria", searchQuery |-> Trim(SliceFrom(query, 6))]
  ELSE IF LocatorPatterns(query)
  THEN [mode |-> "locator", searchQuery |-> query]
  ELSE IF StartsWith(query, <<"-", " ">>) \/ YamlListRegex(query)
  THEN [mode |-> "aria", searchQuery |-> query]
  ELSE IF \/ StartsWith(query, DQuote) /\ EndsWith(query, DQuote)
          \/ StartsWith(query, SQuote) /\ EndsWith(query, SQuote)
  THEN [mode |-> "text", searchQuery |-> SliceInner(query)]
  ELSE [mode |-> "auto", searchQuery |-> query]

_detectSearchMode(query) ==
  IF StartsWith(query, AriaPrefix)
  THEN [mode |-> "aria", searchQuery |-> Trim(SliceFrom(query, 6))]
  ELSE IF StartsWith(query, <<"-", " ">>) \/ YamlListRegex(query)
  THEN [mode |-> "aria", searchQuery |-> query]
  ELSE IF \/ StartsWith(query, DQuote) /\ EndsWith(query, DQuote)
          \/ StartsWith(query, SQuote) /\ EndsWith(query, SQuote)
  THEN [mode |-> "text", searchQuery |-> SliceInner(query)]
  ELSE IF LocatorPatterns(query)
  THEN [mode |-> "locator", searchQuery |-> query]
  ELSE [mode |-> "auto", searchQuery |-> query]

-----------------------------------------------------------------------------
(* Documents *)

\* element a is a proper ancestor of element b in document d
RECURSIVE IsAncestor(_, _, _)
IsAncestor(d, a, b) ==
  /\ b # 0
  /\ \/ d.parent[b] = a
     \/ IsAncestor(d, a, d.parent[b])

\* Node.contains: a is b or an ancestor of b
Contains(d, a, b) == a = b \/ IsAncestor(d, a, b)

Elements(d) == DOMAIN d.parent

\* parent vectors that number the elements in document order: the parent of
\* element i is body, element i-1 or an ancestor of element i-1
IsPreorder(p) ==
  \A i \in DOMAIN p :
    \/ p[i] = 0
    \/ /\ i > 1
       /\ Contains([parent |-> p], p[i], i - 1)

TreesOfSize(n) == {p \in [1..n -> 0..(n - 1)] : (\A i \in 1..n : p[i] < i) /\ IsPreorder(p)}

\* the character data an element holds directly
OwnTexts == { <<>>, <<"a">>, <<"A", " ", "b">> }

DocsOfSize(n) ==
  {[body |-> TRUE, parent |-> p, text |-> t] : p \in TreesOfSize(n), t \in [1..n -> OwnTexts]}

TextDocs == UNION {DocsOfSize(n) : n \in 1..MaxNodes}

\* a document whose body is missing (document.body === null)
NoBodyDoc == [body |-> FALSE, parent |-> <<>>, text |-> <<>>]

\* <div><span>a</span></div><button>A b</button>
NestedDoc == [body |-> TRUE, parent |-> <<0, 1, 0>>, text |-> << <<>>, <<"a">>, <<"A", " ", "b">> >>]

\* the element lists the external engines are taken to return: the first k
\* elements of d in document order, for every k
ElementLists(d) == {[i \in 1..k |-> i] : k \in 0..Len(d.parent)}

-----------------------------------------------------------------------------
(* Text matcher: _searchByText *)

\* normalizeWhiteSpace: trim, and collapse every run of white space to one blank
RECURSIVE CollapseSpace(_)
CollapseSpace(s) ==
  IF s = <<>> THEN <<>>
  ELSE IF IsSpace(Head(s))
  THEN <<" ">> \o CollapseSpace(SubSeq(s, SkipSpace(s, 1), Len(s)))
  ELSE <<Head(s)>> \o CollapseSpace(Tail(s))

NormalizeWhiteSpace(s) == CollapseSpace(Trim(s))

\* elementText(cache, element).full: the element's own character data followed
\* by the full text of its child elements, in order
RECURSIVE ElementTextFull(_, _)
RECURSIVE ChildrenText(_, _, _)
ChildrenText(d, e, c) ==
  IF c > Len(d.parent) THEN <<>>
  ELSE (IF d.parent[c] = e THEN ElementTextFull(d, c) ELSE <<>>) \o ChildrenText(d, e, c + 1)

\* the entries of the cache the document is read through (none when it is
\* read directly)
CacheOf(d) == IF "cache" \in DOMAIN d THEN d.cache ELSE <<>>

\* the document d as elementText(cache, element) reads it
Page(cache, d) == [body |-> d.body, parent |-> d.parent, text |-> d.text, cache |-> cache]

\* cache.get(root), and when there is no entry the text computed from the
\* element's own character data and the elementText of its child elements
ElementTextFull(d, e) ==
  IF e \in DOMAIN CacheOf(d) THEN CacheOf(d)[e]
  ELSE d.text[e] \o ChildrenText(d, e, e + 1)

\* elementText(cache, element).normalized
ElementTextNormalized(d, e) == NormalizeWhiteSpace(ElementTextFull(d, e))

\* text.normalized.toLowerCase().includes(normalizedQuery)
TextMatches(d, e, textQuery) ==
  Includes(ToLowerCase(ElementTextNormalized(d, e)), ToLowerCase(textQuery))

\* results.splice(i, 1) for every results[i] that contains element
RemoveParents(d, results, element) ==
  SelectSeq(results, LAMBDA r : ~Contains(d, r, element))

\* TextVisit without the removal of the parents already in results
TextVisitKeepParents(d, results, element, textQuery) ==
  IF TextMatches(d, element, textQuery)
  THEN IF \E i \in DOMAIN results : Contains(d, element, results[i])
       THEN results
       ELSE Append(results, element)
  ELSE results

\* TextVisit discarding the candidate when an ancestor of it is already in
\* results, and removing nothing
TextVisitFirstWins(d, results, element, textQuery) ==
  IF TextMatches(d, element, textQuery)
  THEN IF \E i \in DOMAIN results : Contains(d, results[i], element)
       THEN results
       ELSE Append(results, element)
  ELSE results

\* the body of the while loop for one element the walker yields
TextVisit(d, results, element, textQuery) ==
  IF TextMatches(d, element, textQuery)
  THEN IF \E i \in DOMAIN results : Contains(d, element, results[i])
       THEN results
       ELSE Append(RemoveParents(d, results, element), element)
  ELSE results

\* while ((node = walker.nextNode())): the elements under body in document order
RECURSIVE TextWalk(_, _, _, _)
TextWalk(d, results, e, textQuery) ==
  IF e > Len(d.parent) THEN results
  ELSE TextWalk(d, TextVisit(d, results, e, textQuery), e + 1, textQuery)

\* CompareDocumentOrder testing DOCUMENT_POSITION_PRECEDING instead
CompareDocumentOrderPreceding(a, b) == IF a > b THEN -1 ELSE 1

\* a.compareDocumentPosition(b) & Node.DOCUMENT_POSITION_FOLLOWING ? -1 : 1
CompareDocumentOrder(a, b) == IF a < b THEN -1 ELSE 1

\* Array.prototype.sort with that comparator
RECURSIVE InsertSorted(_, _)
InsertSorted(sorted, x) ==
  IF sorted = <<>> THEN <<x>>
  ELSE IF CompareDocumentOrder(x, Head(sorted)) < 0
  THEN <<x>> \o sorted
  ELSE <<Head(sorted)>> \o InsertSorted(Tail(sorted), x)

RECURSIVE SortByDocumentOrder(_)
SortByDocumentOrder(s) ==
  IF s = <<>> THEN <<>>
  ELSE InsertSorted(SortByDocumentOrder(SubSeq(s, 1, Len(s) - 1)), s[Len(s)])

\* createTreeWalker(document.body, ...) throws when the document has no body
TextSearchThrows(d) == ~d.body

_searchByText(d, textQuery) == SortByDocumentOrder(TextWalk(d, <<>>, 1, textQuery))

\* _searchByText without its first statement: the entries of the last call stay
TextCacheKept(cache) == cache

\* this._textCache.clear()
TextCacheClear(cache) == <<>>

\* this._textCache after a step whose strategy calls are c: _searchByText
\* clears it, and the walk leaves an entry for every element under body
TextCacheAfter(cache, d, c) ==
  IF ~c.text.called THEN cache
  ELSE IF TextSearchThrows(d) THEN TextCacheClear(cache)
  ELSE [e \in Elements(d) |-> ElementTextFull(Page(TextCacheClear(cache), d), e)]

-----------------------------------------------------------------------------
(* Strategies and the dispatcher *)

\* what the external selector engine does with one query: it throws (in the
\* conversion, the parse or the query) or returns elements in document order
LocatorOutcomes(d) ==
  {[failed |-> TRUE, result |-> <<>>]} \cup
  {[failed |-> FALSE, result |-> r] : r \in ElementLists(d)}

\* what the binding and the aria matcher do with one template: the binding
\* rejects, reports an error or returns no fragment, or the matcher throws or
\* returns elements
AriaOutcomes(d) ==
  {[kind |-> k, result |-> <<>>] : k \in {"reject", "error", "nofragment", "throw"}} \cup
  {[kind |-> "ok", result |-> r] : r \in ElementLists(d)}

\* try { ... querySelectorAll(parsedSelector, document) } catch { return [] }
_searchByLocator(lo) == IF lo.failed THEN <<>> ELSE lo.result

\* the part of _searchByAriaAsync after `await parseAriaTemplate(ariaQuery)`
_searchByAriaAsync(ao) == IF ao.kind = "ok" THEN ao.result ELSE <<>>

NotCalled == [called |-> FALSE, failed |-> FALSE, arg |-> <<>>, result |-> <<>>]

NoDetect == [called |-> FALSE, arg |-> <<>>, mode |-> "auto", searchQuery |-> <<>>]

\* scroll: the elements scrollIntoView was called on in the step just taken;
\* escaped: an exception left the handler of the step, or rejected its promise
NoCalls ==
  [detect |-> NoDetect, locator |-> NotCalled, aria |-> NotCalled, text |-> NotCalled,
   scroll |-> <<>>, escaped |-> FALSE]

LocatorCall(q, lo) ==
  [called |-> TRUE, failed |-> lo.failed, arg |-> q, result |-> _searchByLocator(lo)]

TextCall(d, q) ==
  [called |-> TRUE, failed |-> TextSearchThrows(d), arg |-> q,
   result |-> IF TextSearchThrows(d) THEN <<>> ELSE _searchByText(d, q)]

AriaCall(q, ao) ==
  [called |-> TRUE, failed |-> ao.kind \in {"reject", "throw"}, arg |-> q,
   result |-> _searchByAriaAsync(ao)]

\* _searchAutoAsync without the fallback to the text matcher
SearchAutoLocatorOnly(d, query, lo) ==
  [threw |-> FALSE, matches |-> _searchByLocator(lo)]

\* [threw, matches]: the promise of _searchAutoAsync rejects, or resolves to matches
_searchAutoAsync(d, query, lo) ==
  LET locatorResults == _searchByLocator(lo) IN
  IF Len(locatorResults) > 0
  THEN [threw |-> FALSE, matches |-> locatorResults]
  ELSE [threw |-> TextSearchThrows(d), matches |-> TextCall(d, query).result]

\* the switch of _performSearchAsync for the strategies that do not wait for
\* the binding: [threw, matches]
Dispatch(d, mode, searchQuery, lo) ==
  CASE mode = "locator" -> [threw |-> FALSE, matches |-> _searchByLocator(lo)]
    [] mode = "text"    -> [threw |-> TextSearchThrows(d), matches |-> TextCall(d, searchQuery).result]
    [] mode = "auto"    -> _searchAutoAsync(d, searchQuery, lo)
    [] mode = "aria"    -> [threw |-> FALSE, matches |-> <<>>]

\* the strategies Dispatch calls, with their arguments and results
DispatchCalls(d, mode, searchQuery, lo) ==
  CASE mode = "locator" -> [NoCalls EXCEPT !.locator = LocatorCall(searchQuery, lo)]
    [] mode = "text"    -> [NoCalls EXCEPT !.text = TextCall(d, searchQuery)]
    [] mode = "auto"    ->
         IF Len(_searchByLocator(lo)) > 0
         THEN [NoCalls EXCEPT !.locator = LocatorCall(searchQuery, lo)]
         ELSE [NoCalls EXCEPT !.locator = LocatorCall(searchQuery, lo),
                              !.text = TextCall(d, searchQuery)]
    [] mode = "aria"    -> [NoCalls EXCEPT !.aria = [NotCalled EXCEPT !.called = TRUE, !.arg = searchQuery]]

-----------------------------------------------------------------------------
(* SearchState and its projections.  u is the record of the tool's state and *)
(* of what it renders: [state, counter, noMatch, hasValue, hasResults,       *)
(* highlight].                                                               *)

EmptyState == [query |-> <<>>, mode |-> "auto", matches |-> <<>>, currentIndex |-> -1]

\* this._prevButton and this._nextButton of a tool that has rendered none
NoButtons == [created |-> FALSE, prevDisabled |-> FALSE, nextDisabled |-> FALSE]

DigitChars == <<"0","1","2","3","4","5","6","7","8","9">>

\* String(k) for a natural number k
RECURSIVE DecimalString(_)
DecimalString(k) ==
  IF k < 10 THEN <<DigitChars[k + 1]>>
  ELSE DecimalString(k \div 10) \o <<DigitChars[(k % 10) + 1]>>

\* `${currentIndex + 1}/${matches.length}`
CounterText(st) ==
  DecimalString(st.currentIndex + 1) \o <<"/">> \o DecimalString(Len(st.matches))

\* _updateHasValueClass without the trim
HasValueUntrimmed(u, input) == [u EXCEPT !.hasValue = Len(input) > 0]

_updateHasValueClass(u, input) == [u EXCEPT !.hasValue = Len(Trim(input)) > 0]

_updateHasResultsClass(u) == [u EXCEPT !.hasResults = Len(u.state.matches) > 0]

\* _updateUI writing the index itself, not the index plus one
UpdateUIZeroBased(u, input) ==
  LET matches == u.state.matches IN
  _updateHasResultsClass(
    IF Len(matches) = 0 /\ Trim(input) # <<>>
    THEN [u EXCEPT !.counter = <<>>, !.noMatch = TRUE]
    ELSE IF Len(matches) > 0
    THEN [u EXCEPT !.counter = DecimalString(u.state.currentIndex) \o <<"/">>
                                 \o DecimalString(Len(matches)),
                   !.noMatch = FALSE]
    ELSE [u EXCEPT !.counter = <<>>, !.noMatch = FALSE])

_updateUI(u, input) ==
  LET matches == u.state.matches IN
  _updateHasResultsClass(
    IF Len(matches) = 0 /\ Trim(input) # <<>>
    THEN [u EXCEPT !.counter = <<>>, !.noMatch = TRUE]
    ELSE IF Len(matches) > 0
    THEN [u EXCEPT !.counter = CounterText(u.state), !.noMatch = FALSE]
    ELSE [u EXCEPT !.counter = <<>>, !.noMatch = FALSE])

\* _updateHighlight pushing an entry for every match
HighlightEveryMatch(u) ==
  [u EXCEPT !.highlight = [i \in DOMAIN u.state.matches |-> [element |-> u.state.matches[i]]]]

_updateHighlight(u) ==
  IF Len(u.state.matches) = 0 \/ u.state.currentIndex < 0
  THEN [u EXCEPT !.highlight = <<>>]
  ELSE [u EXCEPT !.highlight = << [element |-> u.state.matches[u.state.currentIndex + 1]] >>]

\* _setNoMatch removing the no-match class instead of adding it
SetNoMatchRemovesClass(u, input) ==
  _updateHasResultsClass(_updateHasValueClass(
    [u EXCEPT !.state = EmptyState, !.counter = <<>>, !.noMatch = FALSE, !.highlight = <<>>],
    input))

_setNoMatch(u, input) ==
  _updateHasResultsClass(_updateHasValueClass(
    [u EXCEPT !.state = EmptyState, !.counter = <<>>, !.noMatch = TRUE, !.highlight = <<>>],
    input))

\* _clearSearch leaving the overlay as it is
ClearSearchKeepsHighlight(u, input) ==
  _updateHasResultsClass(_updateHasValueClass(
    [u EXCEPT !.state = EmptyState, !.counter = <<>>, !.noMatch = FALSE],
    input))

_clearSearch(u, input) ==
  _updateHasResultsClass(_updateHasValueClass(
    [u EXCEPT !.state = EmptyState, !.counter = <<>>, !.noMatch = FALSE, !.highlight = <<>>],
    input))

\* CompleteSearch with currentIndex 0 whatever the number of matches
CompleteSearchIndexZero(u, input, mode, searchQuery, matches) ==
  _updateHighlight(_updateUI(
    [u EXCEPT !.state = [query |-> searchQuery, mode |-> mode, matches |-> matches,
                         currentIndex |-> 0]],
    input))

\* CompleteSearch keeping the index the user had moved to when the new list
\* has an element at it
CompleteSearchKeepsIndex(u, input, mode, searchQuery, matches) ==
  _updateHighlight(_updateUI(
    [u EXCEPT !.state = [query |-> searchQuery, mode |-> mode, matches |-> matches,
                         currentIndex |-> IF Len(matches) = 0 THEN -1
                                          ELSE IF u.state.currentIndex >= 0
                                                  /\ u.state.currentIndex < Len(matches)
                                          THEN u.state.currentIndex ELSE 0]],
    input))

\* lines 265-279 of _performSearchAsync: the state is replaced and rendered
CompleteSearch(u, input, mode, searchQuery, matches) ==
  _updateHighlight(_updateUI(
    [u EXCEPT !.state = [query |-> searchQuery, mode |-> mode, matches |-> matches,
                         currentIndex |-> IF Len(matches) > 0 THEN 0 ELSE -1]],
    input))

\* _scrollToCurrentMatch: the elements scrollIntoView is called on
_scrollToCurrentMatch(st) ==
  IF st.currentIndex >= 0 /\ st.currentIndex < Len(st.matches)
  THEN <<st.matches[st.currentIndex + 1]>>
  ELSE <<>>

\* the scroll at the end of _performSearchAsync (lines 277-278)
ScrollFirstMatch(st) == IF Len(st.matches) > 0 THEN _scrollToCurrentMatch(st) ELSE <<>>

\* the scroll at the end of _navigateNext and _navigatePrev, which the early
\* return on no matches skips
ScrollAfterNavigate(before, after) ==
  IF Len(before.matches) = 0 THEN <<>> ELSE _scrollToCurrentMatch(after)

\* NextIndex stopping at the last match instead of wrapping
NextIndexNoWrap(currentIndex, n) == IF currentIndex + 1 < n THEN currentIndex + 1 ELSE currentIndex

NextIndex(currentIndex, n) == (currentIndex + 1) % n

\* PrevIndex stopping at the first match instead of wrapping
PrevIndexNoWrap(currentIndex, n) == IF currentIndex = 0 THEN 0 ELSE currentIndex - 1

PrevIndex(currentIndex, n) == (currentIndex - 1 + n) % n

\* _navigateNext without the early return on no matches
NavigateNextNoGuard(u, input) ==
  _updateHighlight(_updateUI(
    [u EXCEPT !.state.currentIndex =
       IF Len(u.state.matches) = 0 THEN 0 ELSE NextIndex(@, Len(u.state.matches))],
    input))

\* _navigateNext without its _updateHighlight: the overlay keeps the match it showed
NavigateNextStaleHighlight(u, input) ==
  IF Len(u.state.matches) = 0 THEN u
  ELSE _updateUI(
         [u EXCEPT !.state.currentIndex = NextIndex(@, Len(u.state.matches))], input)

\* _navigateNext bringing the next match to the front of the list instead of
\* moving currentIndex
NavigateNextRotates(u, input) ==
  IF Len(u.state.matches) = 0 THEN u
  ELSE _updateHighlight(_updateUI(
         [u EXCEPT !.state.matches = Tail(@) \o <<Head(@)>>,
                   !.state.currentIndex = 0], input))

_navigateNext(u, input) ==
  IF Len(u.state.matches) = 0 THEN u
  ELSE _updateHighlight(_updateUI(
         [u EXCEPT !.state.currentIndex = NextIndex(@, Len(u.state.matches))], input))

\* _navigatePrev moving forward, as if Shift were not held
NavigatePrevForward(u, input) ==
  IF Len(u.state.matches) = 0 THEN u
  ELSE _updateHighlight(_updateUI(
         [u EXCEPT !.state.currentIndex = (@ + 1) % Len(u.state.matches)], input))

_navigatePrev(u, input) ==
  IF Len(u.state.matches) = 0 THEN u
  ELSE _updateHighlight(_updateUI(
         [u EXCEPT !.state.currentIndex = PrevIndex(@, Len(u.state.matches))], input))

-----------------------------------------------------------------------------
(* The configuration store of the recorder (recorderElementFactories.ts).    *)
(* Colors and factories are functions from key names to values.              *)

\* { ...c }: the customization alone, the defaults dropped
MergeReplace(d, c) == c

\* { ...d, ...c }
Merge(d, c) ==
  [k \in (DOMAIN d) \cup (DOMAIN c) |-> IF k \in DOMAIN c THEN c[k] ELSE d[k]]

defaultHighlightCSS == "highlight.css"

defaultHighlightColors ==
  ("multiple" :> "#f6b26b7f") @@ ("single" :> "#6fa8dc7f") @@
  ("assert" :> "#8acae480") @@ ("action" :> "#dc6f6f7f")

\* three of the default factories
defaultElementFactories ==
  [k \in {"createGlassPane", "createHighlight", "createTooltip"} |-> "default"]

\* window.__pwRecorderConfig before its first use
Undefined == [present |-> FALSE]

getGlobalConfig(cfg) ==
  IF cfg.present THEN cfg
  ELSE [present |-> TRUE,
        factories |-> defaultElementFactories,
        highlightCSS |-> defaultHighlightCSS,
        highlightColors |-> defaultHighlightColors,
        configured |-> FALSE]

\* configureRecorder() called with no argument
NoCustomization == [given |-> FALSE]

\* configureRecorder without the test of config.configured
ConfigureRecorderAlways(cfg, c) ==
  LET cur == getGlobalConfig(cfg) IN
  IF ~c.given THEN cur
  ELSE [cur EXCEPT
          !.configured = TRUE,
          !.highlightCSS = IF c.highlightCSS # "" THEN c.highlightCSS ELSE @,
          !.highlightColors =
             IF c.highlightColors.given
             THEN Merge(defaultHighlightColors, c.highlightColors.value) ELSE @,
          !.factories =
             IF c.elementFactories.given /\ ~c.elementFactories.throws
             THEN Merge(defaultElementFactories, c.elementFactories.exports) ELSE @]

\* configureRecorder evaluating the module string first and giving up the
\* whole call when that fails
ConfigureRecorderFactoriesFirst(cfg, c) ==
  LET cur == getGlobalConfig(cfg) IN
  IF cur.configured \/ ~c.given THEN cur
  ELSE IF c.elementFactories.given /\ c.elementFactories.throws THEN cur
  ELSE [cur EXCEPT
          !.configured = TRUE,
          !.highlightCSS = IF c.highlightCSS # "" THEN c.highlightCSS ELSE @,
          !.highlightColors =
             IF c.highlightColors.given
             THEN Merge(defaultHighlightColors, c.highlightColors.value) ELSE @,
          !.factories =
             IF c.elementFactories.given
             THEN Merge(defaultElementFactories, c.elementFactories.exports) ELSE @]

\* configureRecorder(customization): the store after the call.  c.highlightCSS
\* is '' when it is absent or empty; c.elementFactories is the outcome of
\* evaluating the module string: it throws, or yields the exports
configureRecorder(cfg, c) ==
  LET cur == getGlobalConfig(cfg) IN
  IF cur.configured \/ ~c.given THEN cur
  ELSE [cur EXCEPT
          !.configured = TRUE,
          !.highlightCSS = IF c.highlightCSS # "" THEN c.highlightCSS ELSE @,
          !.highlightColors =
             IF c.highlightColors.given
             THEN Merge(defaultHighlightColors, c.highlightColors.value) ELSE @,
          !.factories =
             IF c.elementFactories.given /\ ~c.elementFactories.throws
             THEN Merge(defaultElementFactories, c.elementFactories.exports) ELSE @]

\* an exception leaves configureRecorder: the one statement of it that can
\* throw, the evaluation of the module string, stands inside try { } catch
configureRecorderThrows(cfg, c) == FALSE

getFactories(cfg) == getGlobalConfig(cfg).factories

getHighlightCSS(cfg) == getGlobalConfig(cfg).highlightCSS

getHighlightColors(cfg) == getGlobalConfig(cfg).highlightColors

resetRecorderConfiguration(cfg) ==
  [getGlobalConfig(cfg) EXCEPT
     !.factories = defaultElementFactories,
     !.highlightCSS = defaultHighlightCSS,
     !.highlightColors = defaultHighlightColors,
     !.configured = FALSE]

NoColors == [given |-> FALSE, value |-> <<>>]

NoFactories == [given |-> FALSE, throws |-> FALSE, exports |-> <<>>]

\* the factories of the search widgets, which the defaults do not have
SearchFactories ==
  [given |-> TRUE, throws |-> FALSE,
   exports |-> [k \in {"createSearchContainer", "createSearchInput", "createSearchCounter"}
                  |-> "custom"]]

\* the customization under which the overlay installs the search tool
SearchCustomization ==
  [given |-> TRUE, highlightCSS |-> "", highlightColors |-> NoColors,
   elementFactories |-> SearchFactories]

SearchConfig == configureRecorder(Undefined, SearchCustomization)

NoConfigCalls ==
  [called |-> FALSE, customized |-> FALSE, last |-> NoCustomization, threw |-> FALSE]

SearchConfigCalls ==
  [called |-> TRUE, customized |-> TRUE, last |-> SearchCustomization, threw |-> FALSE]

-----------------------------------------------------------------------------
(* The tool as a state machine *)

Cur ==
  [state |-> state, counter |-> counter, noMatch |-> noMatch, hasValue |-> hasValue,
   hasResults |-> hasResults, highlight |-> highlight]

Apply(u) ==
  /\ state' = u.state
  /\ counter' = u.counter
  /\ noMatch' = u.noMatch
  /\ hasValue' = u.hasValue
  /\ hasResults' = u.hasResults
  /\ highlight' = u.highlight

NoRun == [start |-> -1, counter |-> <<>>, count |-> 0]

NoSched == [burst |-> 0, started |-> 0]

\* the pages the tool is run on
MainDocs == {NestedDoc, NoBodyDoc}

\* the values the user leaves in the search input:
\* '', ' ', '"a"', '"z"', 'a', '#a', '/aria: a'
MainInputs ==
  { <<>>,
    <<" ">>,
    <<"\"", "a", "\"">>,
    <<"\"", "z", "\"">>,
    <<"a">>,
    <<"#", "a">>,
    <<"/", "a", "r", "i", "a", ":", " ", "a">> }

\* the values scripts leave in the input after uninstall: '', 'a'
DetachedInputs == { <<>>, <<"a">> }

Keys == {"Escape", "Enter", "F3", "a"}

Init ==
  /\ doc \in MainDocs
  /\ ariaBinding \in BOOLEAN
  /\ phase = "constructed"
  /\ inputValue = <<>>
  /\ timers = {}
  /\ debounceTimer = 0
  /\ state = EmptyState
  /\ counter = <<>>
  /\ noMatch = FALSE
  /\ hasValue = FALSE
  /\ hasResults = FALSE
  /\ buttons = NoButtons
  /\ textCache = <<>>
  /\ highlight = <<>>
  /\ inflight = <<>>
  /\ calls = NoCalls
  /\ lastOp = "new"
  /\ elapsed = 0
  /\ sched = NoSched
  /\ run = NoRun
  /\ config = SearchConfig
  /\ configCalls = SearchConfigCalls

\* install(toolsListElement): the widgets are created and the listeners attached
Install ==
  /\ phase = "constructed"
  /\ phase' = "installed"
  /\ counter' = <<>>
  /\ lastOp' = "install"
  /\ run' = NoRun
  /\ UNCHANGED <<textCache, buttons, config, configCalls, doc, ariaBinding, inputValue, timers, debounceTimer, state, noMatch,
                 hasValue, hasResults, highlight, inflight, calls, elapsed, sched>>

\* clearTimeout that cancels nothing
ClearTimeoutNoop(ts, id) == ts

\* clearTimeout(id)
ClearTimeout(ts, id) == {t \in ts : t.id # id}

\* setTimeout(callback, delay): the handle is a positive integer that names no
\* pending timeout
NewTimerId(ts) == CHOOSE id \in 1..(Cardinality(ts) + 1) : \A t \in ts : t.id # id

\* _onSearchInput: [timers, debounceTimer]
_onSearchInput(ts, dt) ==
  LET cleared == IF dt # 0 THEN ClearTimeout(ts, dt) ELSE ts
      id == NewTimerId(cleared)
  IN  [timers |-> cleared \cup {[id |-> id, remaining |-> Delay]}, debounceTimer |-> id]

\* the listeners of install are attached, never removed
ListenersNeverRemoved(p) == p # "constructed"

\* the listeners of install (lines 161-167) are attached until uninstall
\* removes them (removeEventListeners, line 519)
ListenersAttached(p) == p = "installed"

\* this._input exists once install has created it
InputExists(p) == p # "constructed"

IsAriaInput(v) == Trim(v) # <<>> /\ _detectSearchMode(Trim(v)).mode = "aria"

\* an 'input' event of the search input, which now holds v: both listeners
\* run, or none ("detached") once uninstall has removed them
\* (an aria query is typed only while fewer than MaxInflight invocations are
\* suspended: the bound of the model on them)
Input(v) ==
  /\ InputExists(phase)
  /\ v # inputValue
  /\ ListenersAttached(phase) \/ v \in DetachedInputs
  /\ IsAriaInput(v) /\ ariaBinding => Len(inflight) < MaxInflight
  /\ inputValue' = v
  /\ IF ListenersAttached(phase)
     THEN /\ LET r == _onSearchInput(timers, debounceTimer) IN
               /\ timers' = r.timers
               /\ debounceTimer' = r.debounceTimer
          /\ Apply(_updateHasValueClass(Cur, v))
          /\ elapsed' = 0
          /\ sched' = [burst |-> IF timers # {} /\ elapsed < Delay THEN 2 ELSE 1,
                       started |-> 0]
          /\ lastOp' = "input"
          /\ run' = NoRun
          /\ calls' = NoCalls
     ELSE /\ lastOp' = "detached"
          /\ run' = NoRun
          /\ calls' = NoCalls
          /\ UNCHANGED <<timers, debounceTimer, state, counter, noMatch, hasValue,
                         hasResults, highlight, elapsed, sched>>
  /\ UNCHANGED <<textCache, buttons, config, configCalls, doc, ariaBinding, phase, inflight>>

\* time passes: by d, and no pending timeout is overdue
Advance(d) ==
  /\ timers # {}
  /\ d > 0
  /\ \A t \in timers : t.remaining >= d
  /\ timers' = {[t EXCEPT !.remaining = @ - d] : t \in timers}
  /\ elapsed' = elapsed + d
  /\ UNCHANGED <<textCache, buttons, config, configCalls, doc, ariaBinding, phase, inputValue, debounceTimer, state, counter,
                 noMatch, hasValue, hasResults, highlight, inflight, calls, lastOp, sched, run>>

\* every suspended invocation was started before the search that completes
\* now: from now on it is stale (stale is kept for the properties; the tool
\* holds no such flag)
MarkStale(fl) == [i \in DOMAIN fl |-> [fl[i] EXCEPT !.stale = TRUE]]

\* _performSearchAsync without the test of the trimmed input value: the
\* strategies run on the empty query as on any other
FireTimerNoBlankCheck(t, lo) ==
  /\ t \in timers
  /\ t.remaining = 0
  /\ timers' = timers \ {t}
  /\ run' = NoRun
  /\ LET query == Trim(inputValue)
         det == _detectSearchMode(query)
         detected == [called |-> TRUE, arg |-> query, mode |-> det.mode,
                      searchQuery |-> det.searchQuery]
         r == Dispatch(doc, det.mode, det.searchQuery, lo)
         logged == [DispatchCalls(doc, det.mode, det.searchQuery, lo)
                      EXCEPT !.detect = detected]
     IN  IF det.mode = "aria" /\ ariaBinding
         THEN /\ Len(inflight) < MaxInflight
              /\ inflight' = Append(inflight,
                   [mode |-> det.mode, searchQuery |-> det.searchQuery, stale |-> FALSE])
              /\ calls' = logged
              /\ lastOp' = "awaitAria"
              /\ UNCHANGED <<state, counter, noMatch, hasValue, hasResults, highlight>>
         ELSE /\ inflight' = MarkStale(inflight)
              /\ IF r.threw
                 THEN /\ Apply(_setNoMatch(Cur, inputValue))
                      /\ calls' = logged
                      /\ lastOp' = "searchFailed"
                 ELSE LET done == CompleteSearch(Cur, inputValue, det.mode,
                                                 det.searchQuery, r.matches)
                      IN  /\ Apply(done)
                          /\ calls' = [logged EXCEPT !.scroll = ScrollFirstMatch(done.state)]
                          /\ lastOp' = "searchDone"
  /\ sched' = [sched EXCEPT !.started = @ + 1]
  /\ UNCHANGED <<textCache, buttons, config, configCalls, doc, ariaBinding, phase, inputValue, debounceTimer, elapsed>>

\* _performSearchAsync up to its completion or to `await parseAriaTemplate(...)`,
\* run by the timeout t; lo is what the selector engine does if it is called
FireTimer(t, lo) ==
  /\ t \in timers
  /\ t.remaining = 0
  /\ timers' = timers \ {t}
  /\ run' = NoRun
  /\ LET query == Trim(inputValue) IN
     IF query = <<>>
     THEN /\ Apply(_clearSearch(Cur, inputValue))
          /\ calls' = NoCalls
          /\ lastOp' = "cleared"
          /\ UNCHANGED inflight
     ELSE LET det == _detectSearchMode(query)
              detected == [called |-> TRUE, arg |-> query, mode |-> det.mode,
                           searchQuery |-> det.searchQuery]
              r == Dispatch(doc, det.mode, det.searchQuery, lo)
              logged == [DispatchCalls(doc, det.mode, det.searchQuery, lo)
                           EXCEPT !.detect = detected]
          IN  IF det.mode = "aria" /\ ariaBinding
              THEN /\ Len(inflight) < MaxInflight
                   /\ inflight' = Append(inflight,
                        [mode |-> det.mode, searchQuery |-> det.searchQuery, stale |-> FALSE])
                   /\ calls' = logged
                   /\ lastOp' = "awaitAria"
                   /\ UNCHANGED <<state, counter, noMatch, hasValue, hasResults, highlight>>
              ELSE /\ inflight' = MarkStale(inflight)
                   /\ IF r.threw
                      THEN /\ Apply(_setNoMatch(Cur, inputValue))
                           /\ calls' = logged
                           /\ lastOp' = "searchFailed"
                      ELSE LET done == CompleteSearch(Cur, inputValue, det.mode,
                                                      det.searchQuery, r.matches)
                           IN  /\ Apply(done)
                               /\ calls' = [logged EXCEPT !.scroll = ScrollFirstMatch(done.state)]
                               /\ lastOp' = "searchDone"
  /\ sched' = [sched EXCEPT !.started = @ + 1]
  /\ UNCHANGED <<textCache, buttons, config, configCalls, doc, ariaBinding, phase, inputValue, debounceTimer, elapsed>>

\* the invocations suspended before the i-th are stale once the i-th completes
AfterResolve(fl, i) ==
  [j \in 1..(Len(fl) - 1) |->
     IF j < i THEN [fl[j] EXCEPT !.stale = TRUE] ELSE fl[j + 1]]

\* the binding answers the i-th suspended invocation with ao, and the
\* invocation runs to its end
ResolveAria(i, ao) ==
  /\ i \in DOMAIN inflight
  /\ inflight' = AfterResolve(inflight, i)
  /\ LET done == CompleteSearch(Cur, inputValue, inflight[i].mode, inflight[i].searchQuery,
                                 _searchByAriaAsync(ao))
     IN  /\ Apply(done)
         /\ calls' = [NoCalls EXCEPT !.aria = AriaCall(inflight[i].searchQuery, ao),
                                     !.scroll = ScrollFirstMatch(done.state)]
  /\ lastOp' = "ariaDone"
  /\ run' = NoRun
  /\ UNCHANGED <<textCache, buttons, config, configCalls, doc, ariaBinding, phase, inputValue, timers, debounceTimer, elapsed, sched>>

\* the run of consecutive next (or prev) operations after one more of them
RunAfter(op) ==
  IF Len(state.matches) = 0 THEN NoRun
  ELSE IF lastOp = op /\ run.count > 0 /\ run.count < Len(state.matches)
  THEN [run EXCEPT !.count = @ + 1]
  ELSE [start |-> state.currentIndex, counter |-> counter, count |-> 1]

\* _onKeyDown
KeyDown(key, shiftKey) ==
  /\ InputExists(phase)
  /\ IF ~ListenersAttached(phase)
     THEN UNCHANGED <<inputValue, state, counter, noMatch, hasValue, hasResults,
                      highlight, calls, lastOp, run>>
     ELSE IF key = "Escape"
     THEN /\ inputValue' = <<>>
          /\ Apply(_clearSearch(Cur, <<>>))
          /\ calls' = NoCalls
          /\ lastOp' = "escape"
          /\ run' = NoRun
     ELSE IF key = "Enter" \/ key = "F3"
     THEN LET moved == IF shiftKey THEN _navigatePrev(Cur, inputValue)
                                   ELSE _navigateNext(Cur, inputValue)
              op == IF shiftKey THEN "prev" ELSE "next"
          IN  /\ Apply(moved)
              /\ calls' = [NoCalls EXCEPT !.scroll = ScrollAfterNavigate(state, moved.state)]
              /\ lastOp' = op
              /\ run' = RunAfter(op)
              /\ UNCHANGED inputValue
     ELSE UNCHANGED <<inputValue, state, counter, noMatch, hasValue, hasResults,
                      highlight, calls, lastOp, run>>
  /\ UNCHANGED <<textCache, buttons, config, configCalls, doc, ariaBinding, phase, timers, debounceTimer, inflight, elapsed, sched>>

\* uninstall()
Uninstall ==
  /\ phase = "installed"
  /\ phase' = "uninstalled"
  /\ timers' = IF debounceTimer # 0 THEN ClearTimeout(timers, debounceTimer) ELSE timers
  /\ lastOp' = "uninstall"
  /\ run' = NoRun
  /\ calls' = NoCalls
  /\ UNCHANGED <<textCache, buttons, config, configCalls, doc, ariaBinding, inputValue, debounceTimer, state, counter, noMatch,
                 hasValue, hasResults, highlight, inflight, elapsed, sched>>

\* the selector engine is consulted in the locator and auto modes only
EngineOutcomes ==
  IF Trim(inputValue) # <<>> /\ _detectSearchMode(Trim(inputValue)).mode \in {"locator", "auto"}
  THEN LocatorOutcomes(doc)
  ELSE {[failed |-> FALSE, result |-> <<>>]}

AdvanceSteps(ts) ==
  {TimeStep} \cup {t.remaining : t \in ts}

Next ==
  \/ Install
  \/ \E v \in MainInputs : Input(v)
  \/ \E d \in AdvanceSteps(timers) : Advance(d)
  \/ \E t \in timers, lo \in EngineOutcomes : FireTimer(t, lo)
  \/ \E i \in DOMAIN inflight, ao \in AriaOutcomes(doc) : ResolveAria(i, ao)
  \/ \E key \in Keys, shiftKey \in BOOLEAN : KeyDown(key, shiftKey)
  \/ Uninstall

Spec == Init /\ [][Next]_vars

-----------------------------------------------------------------------------
(* The tool when the selector generator or the overlay may throw on the      *)
(* element it is given (an element the page has detached, for one):          *)
(* _updateHighlight is called outside every try block                        *)

\* generateSelector, asLocator or updateHighlight throws inside
\* _updateHighlight: what the caller did before the call stays done, the
\* overlay keeps its entries, and the rest of the caller is skipped
HighlightThrows(before, after) == [after EXCEPT !.highlight = before.highlight]

FaultInputs == { <<>>, <<"a">>, <<"\"", "z", "\"">>, <<"#", "a">> }

InitFault ==
  /\ doc = NestedDoc
  /\ ariaBinding = FALSE
  /\ phase = "constructed"
  /\ inputValue = <<>>
  /\ timers = {}
  /\ debounceTimer = 0
  /\ state = EmptyState
  /\ counter = <<>>
  /\ noMatch = FALSE
  /\ hasValue = FALSE
  /\ hasResults = FALSE
  /\ buttons = NoButtons
  /\ textCache = <<>>
  /\ highlight = <<>>
  /\ inflight = <<>>
  /\ calls = NoCalls
  /\ lastOp = "new"
  /\ elapsed = 0
  /\ sched = NoSched
  /\ run = NoRun
  /\ config = SearchConfig
  /\ configCalls = SearchConfigCalls

\* _performSearchAsync run by the timeout t when the strategy returns matches
\* and _updateHighlight (line 274) throws: the promise of the callback rejects
FireTimerHighlightThrows(t, lo) ==
  /\ t \in timers
  /\ t.remaining = 0
  /\ Trim(inputValue) # <<>>
  /\ LET query == Trim(inputValue)
         det == _detectSearchMode(query)
         detected == [called |-> TRUE, arg |-> query, mode |-> det.mode,
                      searchQuery |-> det.searchQuery]
         r == Dispatch(doc, det.mode, det.searchQuery, lo)
         logged == [DispatchCalls(doc, det.mode, det.searchQuery, lo)
                      EXCEPT !.detect = detected]
     IN  /\ ~(det.mode = "aria" /\ ariaBinding)
         /\ ~r.threw
         /\ Len(r.matches) > 0
         /\ Apply(HighlightThrows(Cur, CompleteSearch(Cur, inputValue, det.mode,
                                                      det.searchQuery, r.matches)))
         /\ calls' = [logged EXCEPT !.escaped = TRUE]
  /\ timers' = timers \ {t}
  /\ inflight' = MarkStale(inflight)
  /\ lastOp' = "searchThrew"
  /\ run' = NoRun
  /\ sched' = [sched EXCEPT !.started = @ + 1]
  /\ UNCHANGED <<textCache, buttons, config, configCalls, doc, ariaBinding, phase, inputValue, debounceTimer, elapsed>>

\* _onKeyDown for Enter or F3 when there are matches and _updateHighlight
\* (lines 299, 310) throws: the exception leaves the keydown listener
KeyDownHighlightThrows(key, shiftKey) ==
  /\ InputExists(phase)
  /\ ListenersAttached(phase)
  /\ key \in {"Enter", "F3"}
  /\ Len(state.matches) > 0
  /\ Apply(HighlightThrows(Cur, IF shiftKey THEN _navigatePrev(Cur, inputValue)
                                            ELSE _navigateNext(Cur, inputValue)))
  /\ calls' = [NoCalls EXCEPT !.escaped = TRUE]
  /\ lastOp' = "navigateThrew"
  /\ run' = NoRun
  /\ UNCHANGED <<textCache, buttons, config, configCalls, doc, ariaBinding, phase, inputValue, timers, debounceTimer, inflight,
                 elapsed, sched>>

NextFault ==
  \/ Install
  \/ \E v \in FaultInputs : Input(v)
  \/ \E d \in AdvanceSteps(timers) : Advance(d)
  \/ \E t \in timers, lo \in EngineOutcomes : FireTimer(t, lo)
  \/ \E t \in timers, lo \in EngineOutcomes : FireTimerHighlightThrows(t, lo)
  \/ \E key \in Keys, shiftKey \in BOOLEAN : KeyDown(key, shiftKey)
  \/ \E key \in Keys, shiftKey \in BOOLEAN : KeyDownHighlightThrows(key, shiftKey)
  \/ Uninstall

SpecFault == InitFault /\ [][NextFault]_vars

-----------------------------------------------------------------------------
(* The text matcher on its own: every document of at most MaxNodes elements, *)
(* and _searchByText called on it                                            *)

TextQueries == { <<>>, <<"a">>, <<"b">>, <<"A">>, <<"a", " ", "b">>, <<"a", "a">>, <<"z">> }

InitText ==
  /\ doc \in TextDocs
  /\ ariaBinding = FALSE
  /\ phase = "constructed"
  /\ inputValue = <<>>
  /\ timers = {}
  /\ debounceTimer = 0
  /\ state = EmptyState
  /\ counter = <<>>
  /\ noMatch = FALSE
  /\ hasValue = FALSE
  /\ hasResults = FALSE
  /\ buttons = NoButtons
  /\ textCache = <<>>
  /\ highlight = <<>>
  /\ inflight = <<>>
  /\ calls = NoCalls
  /\ lastOp = "new"
  /\ elapsed = 0
  /\ sched = NoSched
  /\ run = NoRun
  /\ config = SearchConfig
  /\ configCalls = SearchConfigCalls

SearchByTextCall(textQuery) ==
  /\ calls' = [NoCalls EXCEPT !.text = TextCall(Page(TextCacheClear(textCache), doc), textQuery)]
  /\ textCache' = TextCacheAfter(textCache, doc, calls')
  /\ lastOp' = "text"
  /\ UNCHANGED <<buttons, config, configCalls, doc, ariaBinding, phase, inputValue, timers, debounceTimer, state,
                 counter, noMatch, hasValue, hasResults, highlight, inflight, elapsed, sched, run>>

NextText == \E textQuery \in TextQueries : SearchByTextCall(textQuery)

SpecText == InitText /\ [][NextText]_vars

-----------------------------------------------------------------------------
(* The mode detector on its own: _detectSearchMode called on the trimmed     *)
(* value of the input                                                        *)

DetectHeads ==
  { <<>>, AriaPrefix, <<"-", " ">>, <<"-">>, DQuote, SQuote, <<"#">>,
    <<"g", "e", "t", "B", "y">>, <<"R", "o", "l", "e", "=">>, <<"a", "-", "b">>,
    <<"/", "a", "r", "i", "a">> }

DetectBodies ==
  { <<>>, <<" ", "f", "o", "o">>, <<"S", "u", "b", "m", "i", "t">>, <<"i", "d">>,
    <<"h", "e", "l", "l", "o">>, <<" ", "=">>, <<" ", "\"", "x">> }

DetectTails == { <<>>, DQuote, SQuote, <<" ">> }

DetectInputs == {h \o b \o t : h \in DetectHeads, b \in DetectBodies, t \in DetectTails}

InitDetect ==
  /\ doc = NestedDoc
  /\ ariaBinding = FALSE
  /\ phase = "constructed"
  /\ inputValue \in DetectInputs
  /\ timers = {}
  /\ debounceTimer = 0
  /\ state = EmptyState
  /\ counter = <<>>
  /\ noMatch = FALSE
  /\ hasValue = FALSE
  /\ hasResults = FALSE
  /\ buttons = NoButtons
  /\ textCache = <<>>
  /\ highlight = <<>>
  /\ inflight = <<>>
  /\ calls = NoCalls
  /\ lastOp = "new"
  /\ elapsed = 0
  /\ sched = NoSched
  /\ run = NoRun
  /\ config = SearchConfig
  /\ configCalls = SearchConfigCalls

\* the first lines of _performSearchAsync: the value is trimmed, and detected
\* unless it is empty
DetectCall ==
  /\ lastOp = "new"
  /\ Trim(inputValue) # <<>>
  /\ LET det == _detectSearchMode(Trim(inputValue)) IN
       calls' = [NoCalls EXCEPT !.detect =
                   [called |-> TRUE, arg |-> Trim(inputValue), mode |-> det.mode,
                    searchQuery |-> det.searchQuery]]
  /\ lastOp' = "detect"
  /\ UNCHANGED <<textCache, buttons, config, configCalls, doc, ariaBinding, phase, inputValue, timers, debounceTimer, state,
                 counter, noMatch, hasValue, hasResults, highlight, inflight, elapsed, sched, run>>

NextDetect == DetectCall

SpecDetect == InitDetect /\ [][NextDetect]_vars

-----------------------------------------------------------------------------
(* The configuration store on its own: configureRecorder, the getters and    *)
(* resetRecorderConfiguration called in any order                            *)

CustomCSS == {"", "custom.css"}

CustomColors ==
  { NoColors,
    [given |-> TRUE, value |-> <<>>],
    [given |-> TRUE, value |-> ("single" :> "#ff00ff7f")],
    [given |-> TRUE, value |-> ("single" :> "#ff00ff7f") @@ ("currentMatch" :> "#00ff007f")] }

CustomFactories ==
  { NoFactories,
    [given |-> TRUE, throws |-> TRUE, exports |-> <<>>],
    [given |-> TRUE, throws |-> FALSE, exports |-> ("createTooltip" :> "custom")],
    SearchFactories }

Customizations ==
  {[given |-> TRUE, highlightCSS |-> css, highlightColors |-> hc, elementFactories |-> ef] :
     css \in CustomCSS, hc \in CustomColors, ef \in CustomFactories}

InitConfig ==
  /\ doc = NestedDoc
  /\ ariaBinding = FALSE
  /\ phase = "constructed"
  /\ inputValue = <<>>
  /\ timers = {}
  /\ debounceTimer = 0
  /\ state = EmptyState
  /\ counter = <<>>
  /\ noMatch = FALSE
  /\ hasValue = FALSE
  /\ hasResults = FALSE
  /\ buttons = NoButtons
  /\ textCache = <<>>
  /\ highlight = <<>>
  /\ inflight = <<>>
  /\ calls = NoCalls
  /\ lastOp = "new"
  /\ elapsed = 0
  /\ sched = NoSched
  /\ run = NoRun
  /\ config = Undefined
  /\ configCalls = NoConfigCalls

ConfigureRecorderCall(c) ==
  /\ config' = configureRecorder(config, c)
  /\ configCalls' = [called |-> TRUE, customized |-> configCalls.customized \/ c.given,
                     last |-> c, threw |-> configureRecorderThrows(config, c)]
  /\ lastOp' = "configureRecorder"
  /\ UNCHANGED <<textCache, buttons, doc, ariaBinding, phase, inputValue, timers, debounceTimer, state, counter,
                 noMatch, hasValue, hasResults, highlight, inflight, calls, elapsed, sched, run>>

\* getFactories(), getHighlightCSS() or getHighlightColors(): the store is
\* created if it is not there
GetterCall ==
  /\ config' = getGlobalConfig(config)
  /\ lastOp' = "get"
  /\ UNCHANGED <<textCache, buttons, configCalls, doc, ariaBinding, phase, inputValue, timers, debounceTimer,
                 state, counter, noMatch, hasValue, hasResults, highlight, inflight, calls,
                 elapsed, sched, run>>

ResetRecorderConfigurationCall ==
  /\ config' = resetRecorderConfiguration(config)
  /\ configCalls' = NoConfigCalls
  /\ lastOp' = "resetRecorderConfiguration"
  /\ UNCHANGED <<textCache, buttons, doc, ariaBinding, phase, inputValue, timers, debounceTimer, state, counter,
                 noMatch, hasValue, hasResults, highlight, inflight, calls, elapsed, sched, run>>

NextConfig ==
  \/ \E c \in Customizations \cup {NoCustomization} : ConfigureRecorderCall(c)
  \/ GetterCall
  \/ ResetRecorderConfigurationCall

SpecConfig == InitConfig /\ [][NextConfig]_vars

-----------------------------------------------------------------------------
(* The tool that renders prev/next buttons (src/unnamed/part_001).  Its mode *)
(* detector, strategies, dispatcher, timer handling, _updateHighlight and    *)
(* uninstall are the same code as above; it has no has-value and no          *)
(* has-results class.  u is [state, counter, noMatch, highlight, buttons].   *)

\* setAttribute('disabled', '') or removeAttribute('disabled') on both buttons
SetDisabled(u, disabled) ==
  [u EXCEPT !.buttons.prevDisabled = disabled, !.buttons.nextDisabled = disabled]

_updateUINav(u, input) ==
  LET matches == u.state.matches
      hasMatches == Len(matches) > 0
  IN  SetDisabled(
        IF Len(matches) = 0 /\ Trim(input) # <<>>
        THEN [u EXCEPT !.counter = <<>>, !.noMatch = TRUE]
        ELSE IF Len(matches) > 0
        THEN [u EXCEPT !.counter = CounterText(u.state), !.noMatch = FALSE]
        ELSE [u EXCEPT !.counter = <<>>, !.noMatch = FALSE],
        ~hasMatches)

_setNoMatchNav(u) ==
  SetDisabled(
    [u EXCEPT !.state = EmptyState, !.counter = <<>>, !.noMatch = TRUE, !.highlight = <<>>],
    TRUE)

\* _clearSearch leaving the buttons as they are
ClearSearchNavKeepsButtons(u) ==
  [u EXCEPT !.state = EmptyState, !.counter = <<>>, !.noMatch = FALSE, !.highlight = <<>>]

_clearSearchNav(u) ==
  SetDisabled(
    [u EXCEPT !.state = EmptyState, !.counter = <<>>, !.noMatch = FALSE, !.highlight = <<>>],
    TRUE)

\* `// Update state` to the end of _performSearchAsync, the scroll apart
CompleteSearchNav(u, input, mode, searchQuery, matches) ==
  _updateHighlight(_updateUINav(
    [u EXCEPT !.state = [query |-> searchQuery, mode |-> mode, matches |-> matches,
                         currentIndex |-> IF Len(matches) > 0 THEN 0 ELSE -1]],
    input))

\* the variant's prev stopping at the first match instead of wrapping
PrevIndexNavNoWrap(currentIndex, n) == IF currentIndex <= 0 THEN 0 ELSE currentIndex - 1

\* currentIndex <= 0 ? matches.length - 1 : currentIndex - 1
PrevIndexNav(currentIndex, n) == IF currentIndex <= 0 THEN n - 1 ELSE currentIndex - 1

_navigateNextNav(u, input) ==
  IF Len(u.state.matches) = 0 THEN u
  ELSE _updateHighlight(_updateUINav(
         [u EXCEPT !.state.currentIndex = (@ + 1) % Len(u.state.matches)], input))

_navigatePrevNav(u, input) ==
  IF Len(u.state.matches) = 0 THEN u
  ELSE _updateHighlight(_updateUINav(
         [u EXCEPT !.state.currentIndex = PrevIndexNav(@, Len(u.state.matches))], input))

CurNav ==
  [state |-> state, counter |-> counter, noMatch |-> noMatch, highlight |-> highlight,
   buttons |-> buttons]

ApplyNav(u) ==
  /\ state' = u.state
  /\ counter' = u.counter
  /\ noMatch' = u.noMatch
  /\ highlight' = u.highlight
  /\ buttons' = u.buttons

\* the values the user leaves in the search input: '', '"a"', '#a', '/aria: a'
NavInputs ==
  { <<>>,
    <<"\"", "a", "\"">>,
    <<"#", "a">>,
    <<"/", "a", "r", "i", "a", ":", " ", "a">> }

InitNav ==
  /\ doc \in MainDocs
  /\ ariaBinding \in BOOLEAN
  /\ phase = "constructed"
  /\ inputValue = <<>>
  /\ timers = {}
  /\ debounceTimer = 0
  /\ state = EmptyState
  /\ counter = <<>>
  /\ noMatch = FALSE
  /\ hasValue = FALSE
  /\ hasResults = FALSE
  /\ buttons = NoButtons
  /\ textCache = <<>>
  /\ highlight = <<>>
  /\ inflight = <<>>
  /\ calls = NoCalls
  /\ lastOp = "new"
  /\ elapsed = 0
  /\ sched = NoSched
  /\ run = NoRun
  /\ config = SearchConfig
  /\ configCalls = SearchConfigCalls

\* install(toolsListElement): both buttons are created disabled
InstallNav ==
  /\ phase = "constructed"
  /\ phase' = "installed"
  /\ counter' = <<>>
  /\ buttons' = [created |-> TRUE, prevDisabled |-> TRUE, nextDisabled |-> TRUE]
  /\ lastOp' = "install"
  /\ UNCHANGED <<textCache, config, configCalls, doc, ariaBinding, inputValue, timers, debounceTimer,
                 state, noMatch, hasValue, hasResults, highlight, inflight, calls, elapsed,
                 sched, run>>

\* an 'input' event of the search input, which now holds v
InputNav(v) ==
  /\ ListenersAttached(phase)
  /\ v # inputValue
  /\ IsAriaInput(v) /\ ariaBinding => Len(inflight) < MaxInflight
  /\ inputValue' = v
  /\ LET r == _onSearchInput(timers, debounceTimer) IN
       /\ timers' = r.timers
       /\ debounceTimer' = r.debounceTimer
  /\ elapsed' = 0
  /\ sched' = [burst |-> IF timers # {} /\ elapsed < Delay THEN 2 ELSE 1, started |-> 0]
  /\ lastOp' = "input"
  /\ UNCHANGED <<textCache, config, configCalls, doc, ariaBinding, phase, state, counter, noMatch,
                 hasValue, hasResults, buttons, highlight, inflight, calls, run>>

\* _performSearchAsync up to its completion or to `await parseAriaTemplate(...)`
FireTimerNav(t, lo) ==
  /\ t \in timers
  /\ t.remaining = 0
  /\ timers' = timers \ {t}
  /\ LET query == Trim(inputValue) IN
     IF query = <<>>
     THEN /\ ApplyNav(_clearSearchNav(CurNav))
          /\ lastOp' = "cleared"
          /\ UNCHANGED inflight
     ELSE LET det == _detectSearchMode(query)
              r == Dispatch(doc, det.mode, det.searchQuery, lo)
          IN  IF det.mode = "aria" /\ ariaBinding
              THEN /\ Len(inflight) < MaxInflight
                   /\ inflight' = Append(inflight,
                        [mode |-> det.mode, searchQuery |-> det.searchQuery, stale |-> FALSE])
                   /\ lastOp' = "awaitAria"
                   /\ UNCHANGED <<state, counter, noMatch, highlight, buttons>>
              ELSE /\ inflight' = MarkStale(inflight)
                   /\ IF r.threw
                      THEN /\ ApplyNav(_setNoMatchNav(CurNav))
                           /\ lastOp' = "searchFailed"
                      ELSE /\ ApplyNav(CompleteSearchNav(CurNav, inputValue, det.mode,
                                                         det.searchQuery, r.matches))
                           /\ lastOp' = "searchDone"
  /\ sched' = [sched EXCEPT !.started = @ + 1]
  /\ UNCHANGED <<textCache, config, configCalls, doc, ariaBinding, phase, inputValue, debounceTimer,
                 hasValue, hasResults, calls, elapsed, run>>

\* the binding answers the i-th suspended invocation with ao
ResolveAriaNav(i, ao) ==
  /\ i \in DOMAIN inflight
  /\ inflight' = AfterResolve(inflight, i)
  /\ ApplyNav(CompleteSearchNav(CurNav, inputValue, inflight[i].mode, inflight[i].searchQuery,
                                _searchByAriaAsync(ao)))
  /\ lastOp' = "ariaDone"
  /\ UNCHANGED <<textCache, config, configCalls, doc, ariaBinding, phase, inputValue, timers,
                 debounceTimer, hasValue, hasResults, calls, elapsed, sched, run>>

\* the handlers of the tool that move through the matches
NavigateNav(op) ==
  /\ ApplyNav(IF op = "prev" THEN _navigatePrevNav(CurNav, inputValue)
                             ELSE _navigateNextNav(CurNav, inputValue))
  /\ lastOp' = op
  /\ UNCHANGED inputValue

\* _onKeyDown
KeyDownNav(key, shiftKey) ==
  /\ ListenersAttached(phase)
  /\ IF key = "Escape"
     THEN /\ inputValue' = <<>>
          /\ ApplyNav(_clearSearchNav(CurNav))
          /\ lastOp' = "escape"
     ELSE IF key = "Enter" \/ key = "F3"
     THEN NavigateNav(IF shiftKey THEN "prev" ELSE "next")
     ELSE UNCHANGED <<inputValue, state, counter, noMatch, highlight, buttons, lastOp>>
  /\ UNCHANGED <<textCache, config, configCalls, doc, ariaBinding, phase, timers, debounceTimer,
                 hasValue, hasResults, inflight, calls, elapsed, sched, run>>

\* a 'click' event of the prev or of the next button
ClickNav(op) ==
  /\ ListenersAttached(phase)
  /\ NavigateNav(op)
  /\ UNCHANGED <<textCache, config, configCalls, doc, ariaBinding, phase, timers, debounceTimer,
                 hasValue, hasResults, inflight, calls, elapsed, sched, run>>

EngineOutcomesNav ==
  IF Trim(inputValue) # <<>> /\ _detectSearchMode(Trim(inputValue)).mode \in {"locator", "auto"}
  THEN LocatorOutcomes(doc)
  ELSE {[failed |-> FALSE, result |-> <<>>]}

NextNav ==
  \/ InstallNav
  \/ \E v \in NavInputs : InputNav(v)
  \/ \E d \in AdvanceSteps(timers) : Advance(d)
  \/ \E t \in timers, lo \in EngineOutcomesNav : FireTimerNav(t, lo)
  \/ \E i \in DOMAIN inflight, ao \in AriaOutcomes(doc) : ResolveAriaNav(i, ao)
  \/ \E key \in Keys, shiftKey \in BOOLEAN : KeyDownNav(key, shiftKey)
  \/ \E op \in {"prev", "next"} : ClickNav(op)
  \/ Uninstall

SpecNav == InitNav /\ [][NextNav]_vars

-----------------------------------------------------------------------------

(* The two implementations of prev side by side: either tool after a locator *)
(* search that found n elements, then prev operations only                   *)

\* <button>a</button> n times
FlatDoc(n) == [body |-> TRUE, parent |-> [i \in 1..n |-> 0], text |-> [i \in 1..n |-> <<"a">>]]

\* '#a'
PrevInput == <<"#", "a">>

\* what either tool holds and renders once the search for '#a' has found the
\* n elements of the page
PrevSearched(n) ==
  CompleteSearch(
    [state |-> EmptyState, counter |-> <<>>, noMatch |-> FALSE, hasValue |-> TRUE,
     hasResults |-> FALSE, highlight |-> <<>>],
    PrevInput, "locator", PrevInput, [i \in 1..n |-> i])

InitPrev ==
  \E n \in 1..MaxMatches, nav \in BOOLEAN :
    /\ doc = FlatDoc(n)
    /\ ariaBinding = FALSE
    /\ phase = "installed"
    /\ inputValue = PrevInput
    /\ timers = {}
    /\ debounceTimer = 1
    /\ state = PrevSearched(n).state
    /\ counter = PrevSearched(n).counter
    /\ noMatch = FALSE
    /\ hasValue = ~nav
    /\ hasResults = ~nav
    /\ buttons = IF nav THEN [created |-> TRUE, prevDisabled |-> FALSE, nextDisabled |-> FALSE]
                        ELSE NoButtons
    /\ textCache = <<>>
    /\ highlight = PrevSearched(n).highlight
    /\ inflight = <<>>
    /\ calls = NoCalls
    /\ lastOp = "searchDone"
    /\ elapsed = Delay
    /\ sched = [burst |-> 1, started |-> 1]
    /\ run = NoRun
    /\ config = SearchConfig
    /\ configCalls = SearchConfigCalls

\* Shift+Enter or Shift+F3 in the tool without buttons
PrevKey(key) ==
  /\ ~buttons.created
  /\ KeyDown(key, TRUE)

\* a click on the prev button, or Shift+Enter or Shift+F3, in the tool with buttons
PrevNav(key) ==
  /\ buttons.created
  /\ \/ key = "click" /\ ClickNav("prev")
     \/ key # "click" /\ KeyDownNav(key, TRUE)

NextPrev ==
  \/ \E key \in {"Enter", "F3"} : PrevKey(key)
  \/ \E key \in {"click", "Enter", "F3"} : PrevNav(key)

SpecPrev == InitPrev /\ [][NextPrev]_vars

-----------------------------------------------------------------------------

(* The tool on a page that changes between searches, this._textCache        *)
(* followed through every step                                               *)

\* the values the user leaves in the search input:
\* '', '"a"', 'a', '#a', '""', '/aria:'
CacheInputs ==
  { <<>>,
    <<"\"", "a", "\"">>,
    <<"a">>,
    <<"#", "a">>,
    <<"\"", "\"">>,
    <<"/", "a", "r", "i", "a", ":">> }

\* the element whose character data a script of the page replaces, and what
\* it puts there
MutatedElements == {2}

MutatedTexts == { <<>>, <<"a">> }

InitCache ==
  /\ doc = NestedDoc
  /\ ariaBinding = FALSE
  /\ phase = "constructed"
  /\ inputValue = <<>>
  /\ timers = {}
  /\ debounceTimer = 0
  /\ state = EmptyState
  /\ counter = <<>>
  /\ noMatch = FALSE
  /\ hasValue = FALSE
  /\ hasResults = FALSE
  /\ buttons = NoButtons
  /\ textCache = <<>>
  /\ highlight = <<>>
  /\ inflight = <<>>
  /\ calls = NoCalls
  /\ lastOp = "new"
  /\ elapsed = 0
  /\ sched = NoSched
  /\ run = NoRun
  /\ config = SearchConfig
  /\ configCalls = SearchConfigCalls

\* the page replaces the character data of element e by t
MutateText(e, t) ==
  /\ e \in Elements(doc)
  /\ doc.text[e] # t
  /\ doc' = [doc EXCEPT !.text[e] = t]
  /\ lastOp' = "mutate"
  /\ calls' = NoCalls
  /\ run' = NoRun
  /\ UNCHANGED <<textCache, buttons, config, configCalls, ariaBinding, phase, inputValue, timers,
                 debounceTimer, state, counter, noMatch, hasValue, hasResults, highlight,
                 inflight, elapsed, sched>>

\* _performSearchAsync run by the timeout t, the binding being absent: the
\* text matcher reads the page through this._textCache, which it clears first
FireTimerCache(t, lo) ==
  /\ t \in timers
  /\ t.remaining = 0
  /\ ~ariaBinding
  /\ timers' = timers \ {t}
  /\ run' = NoRun
  /\ LET query == Trim(inputValue) IN
     IF query = <<>>
     THEN /\ Apply(_clearSearch(Cur, inputValue))
          /\ calls' = NoCalls
          /\ lastOp' = "cleared"
          /\ UNCHANGED textCache
     ELSE LET det == _detectSearchMode(query)
              detected == [called |-> TRUE, arg |-> query, mode |-> det.mode,
                           searchQuery |-> det.searchQuery]
              page == Page(TextCacheClear(textCache), doc)
              r == Dispatch(page, det.mode, det.searchQuery, lo)
              logged == [DispatchCalls(page, det.mode, det.searchQuery, lo)
                           EXCEPT !.detect = detected]
          IN  /\ textCache' = TextCacheAfter(textCache, doc, logged)
              /\ IF r.threw
                 THEN /\ Apply(_setNoMatch(Cur, inputValue))
                      /\ calls' = logged
                      /\ lastOp' = "searchFailed"
                 ELSE LET done == CompleteSearch(Cur, inputValue, det.mode,
                                                 det.searchQuery, r.matches)
                      IN  /\ Apply(done)
                          /\ calls' = [logged EXCEPT !.scroll = ScrollFirstMatch(done.state)]
                          /\ lastOp' = "searchDone"
  /\ inflight' = MarkStale(inflight)
  /\ sched' = [sched EXCEPT !.started = @ + 1]
  /\ UNCHANGED <<buttons, config, configCalls, doc, ariaBinding, phase, inputValue,
                 debounceTimer, elapsed>>

NextCache ==
  \/ Install
  \/ \E v \in CacheInputs : Input(v)
  \/ \E d \in AdvanceSteps(timers) : Advance(d)
  \/ \E t \in timers, lo \in EngineOutcomes : FireTimerCache(t, lo)
  \/ \E key \in Keys, shiftKey \in BOOLEAN : KeyDown(key, shiftKey)
  \/ \E e \in MutatedElements, t \in MutatedTexts : MutateText(e, t)
  \/ Uninstall

SpecCache == InitCache /\ [][NextCache]_vars

-----------------------------------------------------------------------------

(* The tool when the user never leaves the input blank by typing: the input  *)
(* is empty only before the first input event and after Escape               *)

\* the values the user leaves in the search input: '"a"', 'a', '/aria: a'
EscapeInputs ==
  { <<"\"", "a", "\"">>,
    <<"a">>,
    <<"/", "a", "r", "i", "a", ":", " ", "a">> }

NextEscape ==
  \/ Install
  \/ \E v \in EscapeInputs : Input(v)
  \/ \E d \in AdvanceSteps(timers) : Advance(d)
  \/ \E t \in timers, lo \in EngineOutcomes : FireTimer(t, lo)
  \/ \E i \in DOMAIN inflight, ao \in AriaOutcomes(doc) : ResolveAria(i, ao)
  \/ \E key \in Keys, shiftKey \in BOOLEAN : KeyDown(key, shiftKey)
  \/ Uninstall

SpecEscape == Init /\ [][NextEscape]_vars

-----------------------------------------------------------------------------

(* The tool under the scheduling of the page: time passes while a timeout is *)
(* pending, a timeout that is due runs its callback, and the binding answers *)
(* every call it was given                                                   *)

\* the values the user leaves in the search input: '', '"a"', '/aria: a'
LiveInputs ==
  { <<>>,
    <<"\"", "a", "\"">>,
    <<"/", "a", "r", "i", "a", ":", " ", "a">> }

InitLive ==
  /\ Init
  /\ doc = NestedDoc

NextLive ==
  \/ Install
  \/ \E v \in LiveInputs : Input(v)
  \/ \E d \in AdvanceSteps(timers) : Advance(d)
  \/ \E t \in timers, lo \in EngineOutcomes : FireTimer(t, lo)
  \/ \E i \in DOMAIN inflight, ao \in AriaOutcomes(doc) : ResolveAria(i, ao)
  \/ \E key \in Keys, shiftKey \in BOOLEAN : KeyDown(key, shiftKey)
  \/ Uninstall

\* a timeout is due: its callback is the next thing the event loop runs
TimerDue == \E t \in timers : t.remaining = 0

\* time passes, a promise the binding returned settles, and the callback of a
\* timeout runs once it is due.  The callback is enabled exactly while a
\* timeout is due and a due timeout stays due until its callback has run, so
\* weak fairness of the callback is []<>~TimerDue
LiveFairness ==
  /\ WF_vars(\E d \in AdvanceSteps(timers) : Advance(d))
  /\ WF_vars(\E i \in DOMAIN inflight, ao \in AriaOutcomes(doc) : ResolveAria(i, ao))
  /\ []<>~TimerDue

SpecLive == InitLive /\ [][NextLive]_vars /\ LiveFairness

-----------------------------------------------------------------------------

(* Properties *)

InvocationEnded == lastOp \in {"cleared", "searchDone", "searchFailed", "ariaDone"}

\* C1 (staleness): when an invocation suspended at the aria binding completes
\* after an invocation started later than it has completed, its completion
\* changes neither SearchState nor the counter nor the highlight.
C1_StaleResultDiscarded ==
  [][\A i \in DOMAIN inflight, ao \in AriaOutcomes(doc) :
       (inflight[i].stale /\ ResolveAria(i, ao))
         => UNCHANGED <<state, counter, highlight>>]_vars

\* C2: currentIndex is -1 iff matches is empty, and otherwise
\* 0 <= currentIndex < matches.length.
C2_IndexInRange ==
  /\ state.currentIndex = -1 <=> state.matches = <<>>
  /\ state.matches # <<>> =>
       0 <= state.currentIndex /\ state.currentIndex < Len(state.matches)

C2_Witness ==
  /\ lastOp = "prev"
  /\ Len(state.matches) = 3
  /\ state.currentIndex = 2

\* C3 (debounce): at most one timeout is pending; while it is pending it is
\* the one the last input event set, due Delay after that event, and no
\* invocation has started since that event; once it is gone exactly one
\* invocation has started since the last input event, Delay after it.
C3_Debounce ==
  /\ Cardinality(timers) <= 1
  /\ phase = "installed" /\ debounceTimer # 0 =>
       \/ /\ timers = {[id |-> debounceTimer, remaining |-> Delay - elapsed]}
          /\ sched.started = 0
       \/ /\ timers = {}
          /\ sched.started = 1
          /\ elapsed = Delay

\* a burst of two or more input events has started one invocation
C3_Witness ==
  /\ sched.burst = 2
  /\ sched.started = 1
  /\ timers = {}
  /\ lastOp = "searchDone"

NoAncestorPair(d, list) ==
  \A i, j \in DOMAIN list : i # j => ~IsAncestor(d, list[i], list[j])

\* C4 (dedup): the list the text matcher returns holds no element that is an
\* ancestor of another element of the list.
C4_TextDedup ==
  calls.text.called => NoAncestorPair(doc, calls.text.result)

\* an element matches and is left out because a descendant of it is in the list
C4_Witness ==
  /\ calls.text.called
  /\ Len(calls.text.result) = 2
  /\ \E e \in Elements(doc) :
       /\ TextMatches(doc, e, calls.text.arg)
       /\ \E i \in DOMAIN calls.text.result : IsAncestor(doc, e, calls.text.result[i])

\* C5 (order): the list the text matcher returns is strictly increasing in
\* document order.
C5_TextOrder ==
  calls.text.called =>
    \A i, j \in DOMAIN calls.text.result :
      i < j => calls.text.result[i] < calls.text.result[j]

C5_Witness ==
  /\ calls.text.called
  /\ Len(calls.text.result) = MaxNodes
  /\ calls.text.arg # <<>>

\* C6 (wraparound): after n consecutive next operations, or n consecutive prev
\* operations, on n matches, currentIndex and the counter text are what they
\* were before the first of them.
C6_Wraparound ==
  lastOp \in {"next", "prev"} /\ state.matches # <<>> /\ run.count = Len(state.matches) =>
    /\ state.currentIndex = run.start
    /\ counter = run.counter

C6_Witness ==
  /\ lastOp = "next"
  /\ Len(state.matches) = 3
  /\ run.count = 3
  /\ run.start = 1

\* the rules of the detector as the specification words them
C7_AriaPrefixed(q) == Len(q) >= 6 /\ SubSeq(q, 1, 6) = <<"/", "a", "r", "i", "a", ":">>

C7_YamlLike(q) ==
  /\ Len(q) >= 2
  /\ q[1] = "-"
  /\ IsSpace(q[2])
  /\ q[2] = " " \/ \E k \in 3..Len(q) : IsWordChar(q[k]) /\ \A j \in 2..(k - 1) : IsSpace(q[j])

C7_QuoteWrapped(q) == q[1] \in {"\"", "'"} /\ q[Len(q)] = q[1]

C7_Expected(q) ==
  CASE C7_AriaPrefixed(q) -> [mode |-> "aria", searchQuery |-> Trim(SubSeq(q, 7, Len(q)))]
    [] ~C7_AriaPrefixed(q) /\ C7_YamlLike(q) -> [mode |-> "aria", searchQuery |-> q]
    [] ~C7_AriaPrefixed(q) /\ ~C7_YamlLike(q) /\ C7_QuoteWrapped(q) ->
         [mode |-> "text", searchQuery |-> SubSeq(q, 2, Len(q) - 1)]
    [] ~C7_AriaPrefixed(q) /\ ~C7_YamlLike(q) /\ ~C7_QuoteWrapped(q) /\ LocatorPatterns(q) ->
         [mode |-> "locator", searchQuery |-> q]
    [] OTHER -> [mode |-> "auto", searchQuery |-> q]

C7_Detected == [mode |-> calls.detect.mode, searchQuery |-> calls.detect.searchQuery]

C8_AutoMode ==
  lastOp = "searchDone" /\ state.mode = "auto" =>
    /\ calls.locator.called /\ calls.locator.arg = state.query
    /\ state.matches =
         IF Len(calls.locator.result) > 0
         THEN calls.locator.result
         ELSE _searchByText(doc, state.query)

C8_Witness ==
  /\ lastOp = "searchDone"
  /\ state.mode = "auto"
  /\ calls.locator.failed
  /\ Len(state.matches) = 2

StrategyFailed == calls.locator.failed \/ calls.aria.failed \/ calls.text.failed

EmptyRendered ==
  /\ state.matches = <<>>
  /\ state.currentIndex = -1
  /\ highlight = <<>>

AutoFellBack ==
  lastOp = "searchDone" /\ state.mode = "auto" /\ calls.locator.failed /\ ~calls.text.failed

C10_HighlightSync ==
  /\ state.matches = <<>> => highlight = <<>>
  /\ state.matches # <<>> =>
       /\ Len(highlight) = 1
       /\ highlight[1].element = state.matches[state.currentIndex + 1]

C10_Witness ==
  /\ lastOp = "next"
  /\ Len(state.matches) = 3
  /\ state.currentIndex = 1
  /\ highlight = << [element |-> 2] >>

C11_Digit == <<"1", "2", "3", "4", "5", "6", "7", "8", "9">>

\* C11 (counter): in every state the counter text is
\* "{currentIndex+1}/{matches.length}" when there are matches and the empty
\* string when there are none; on three matches shown as '1/3', one, two and
\* three next operations show '2/3', '3/3' and '1/3'.
C11_CounterProjection ==
  /\ state.matches = <<>> => counter = <<>>
  /\ state.matches # <<>> =>
       counter = <<C11_Digit[state.currentIndex + 1], "/", C11_Digit[Len(state.matches)]>>
  /\ lastOp = "next" /\ run.counter = <<"1", "/", "3">> /\ run.count \in 1..3 =>
       counter = <<C11_Digit[(run.count % 3) + 1], "/", "3">>

\* the third next on three matches is back at '1/3'
C11_Witness ==
  /\ lastOp = "next"
  /\ run.counter = <<"1", "/", "3">>
  /\ run.count = 3
  /\ counter = <<"1", "/", "3">>

\* C12 as claimed: an invocation that completes leaving a non-empty query and
\* no matches has set the no-match flag and emptied the counter; one that
\* completes with matches has removed the flag.
C12_NoMatchFlag ==
  lastOp \in {"searchDone", "ariaDone"} =>
    /\ state.query # <<>> /\ state.matches = <<>> => noMatch /\ counter = <<>>
    /\ state.matches # <<>> => ~noMatch

\* C13 (Escape): a keydown of Escape, within the handler and with no timeout
\* set, cancelled or waited for, empties the input value, resets SearchState
\* to the empty state with query '', empties the counter, removes the
\* no-match flag and the has-value and has-results classes and clears the
\* highlight.
C13_EscapeClear ==
  [][lastOp' = "escape" =>
     \A shiftKey \in BOOLEAN :
       KeyDown("Escape", shiftKey) =>
         /\ inputValue' = <<>>
         /\ state' = [query |-> <<>>, mode |-> "auto", matches |-> <<>>, currentIndex |-> -1]
         /\ counter' = <<>>
         /\ ~noMatch'
         /\ ~hasValue'
         /\ ~hasResults'
         /\ highlight' = <<>>
         /\ UNCHANGED <<timers, debounceTimer>>]_vars

\* Escape pressed while a timeout is pending and an invocation is suspended
C13_Witness ==
  /\ lastOp = "escape"
  /\ timers # {}
  /\ inflight # <<>>
  /\ inputValue = <<>>

\* C14 as claimed: an input event that leaves the input empty or blank resets
\* SearchState to the empty state within the event.
C14_EmptyInputClearsNow ==
  lastOp = "input" /\ Trim(inputValue) = <<>> => state = EmptyState

\* C19 (container classes): after a completed search, a clear or a failure
\* the container has has-results exactly when there are matches; after an
\* input event, a clear or a failure it has has-value exactly when the
\* trimmed input value is not empty; after install it has neither, after a
\* search that completes from the timeout with matches both, with no match
\* has-value only, and after Escape neither.
C19_ContainerClasses ==
  /\ lastOp \in {"searchDone", "ariaDone", "cleared", "escape", "searchFailed"} =>
       (hasResults <=> state.matches # <<>>)
  /\ lastOp \in {"input", "cleared", "escape", "searchFailed"} =>
       (hasValue <=> Trim(inputValue) # <<>>)
  /\ lastOp = "install" => ~hasValue /\ ~hasResults
  /\ lastOp = "searchDone" /\ state.matches # <<>> => hasValue /\ hasResults
  /\ lastOp = "searchDone" /\ state.matches = <<>> => hasValue /\ ~hasResults
  /\ lastOp = "escape" => ~hasValue /\ ~hasResults

\* a search with no match: has-value only
C19_Witness ==
  /\ lastOp = "searchDone"
  /\ state.matches = <<>>
  /\ hasValue
  /\ ~hasResults
  /\ noMatch

\* the handler a keydown of key with or without Shift is claimed to run, as
\* lastOp names it
C16_Operation(key, shiftKey) ==
  CASE key = "Escape" -> "escape"
    [] key \in {"Enter", "F3"} /\ ~shiftKey -> "next"
    [] key \in {"Enter", "F3"} /\ shiftKey -> "prev"

\* C15: with no matches (currentIndex -1) a next or a prev changes neither
\* SearchState nor the counter nor the no-match flag nor the highlight, and
\* calls scrollIntoView on nothing.
C15_EmptyNavigationNoop ==
  [][(state.matches = <<>> /\ lastOp' \in {"next", "prev"}) =>
       \A key \in {"Enter", "F3"}, shiftKey \in BOOLEAN :
         (lastOp' = C16_Operation(key, shiftKey) /\ KeyDown(key, shiftKey)) =>
           /\ UNCHANGED <<state, counter, noMatch, highlight>>
           /\ calls'.scroll = <<>>]_vars

\* next pressed after a search that found nothing
C15_Witness ==
  /\ lastOp = "next"
  /\ state.matches = <<>>
  /\ state.currentIndex = -1
  /\ noMatch
  /\ calls.scroll = <<>>

C16_After(st, step) ==
  IF st.matches = <<>> THEN st
  ELSE [st EXCEPT !.currentIndex = (@ + step + Len(st.matches)) % Len(st.matches)]

\* C16 (keyboard): Enter or F3 without Shift is next, Enter or F3 with Shift
\* is prev, Escape is clear, and a keydown of any other key changes neither
\* SearchState nor the counter nor the highlight.
C16_KeyboardSurface ==
  [][/\ lastOp' \in {"escape", "next", "prev"} =>
        \A key \in {"Escape", "Enter", "F3"}, shiftKey \in BOOLEAN :
          (lastOp' = C16_Operation(key, shiftKey) /\ KeyDown(key, shiftKey)) =>
            CASE C16_Operation(key, shiftKey) = "escape" ->
                   /\ state' = [query |-> <<>>, mode |-> "auto", matches |-> <<>>,
                                currentIndex |-> -1]
                   /\ inputValue' = <<>>
              [] C16_Operation(key, shiftKey) = "next" ->
                   /\ state' = C16_After(state, 1)
                   /\ calls'.scroll = IF state.matches = <<>> THEN <<>>
                                      ELSE <<state.matches[state'.currentIndex + 1]>>
              [] C16_Operation(key, shiftKey) = "prev" ->
                   /\ state' = C16_After(state, -1)
                   /\ calls'.scroll = IF state.matches = <<>> THEN <<>>
                                      ELSE <<state.matches[state'.currentIndex + 1]>>
     /\ \/ UNCHANGED <<state, counter, highlight>>
        \/ \A key \in Keys \ {"Escape", "Enter", "F3"}, shiftKey \in BOOLEAN :
             ~KeyDown(key, shiftKey)]_vars

\* Shift held on three matches: from the first match to the last
C16_Witness ==
  /\ lastOp = "prev"
  /\ Len(state.matches) = 3
  /\ state.currentIndex = 2
  /\ run.start = 0
  /\ run.count = 1
  /\ calls.scroll = <<3>>

\* C17 (uninstall): once the tool is uninstalled no timeout is pending, so the
\* debounce timeout that was pending never starts an invocation; input and
\* keydown events on the search input start no invocation and set no timeout,
\* and SearchState and the highlight change only in a step in which an
\* invocation that was already suspended at the binding completes (inflight
\* gets shorter).
C17_UninstallTeardown ==
  [][/\ phase' = "uninstalled" => timers' = {}
     /\ phase = "uninstalled" =>
          /\ sched'.started = sched.started
          /\ Len(inflight') <= Len(inflight)
          /\ lastOp' \in {"uninstall", "detached", "ariaDone"}
          /\ Len(inflight') = Len(inflight) =>
               UNCHANGED <<state, counter, noMatch, hasValue, hasResults, highlight>>]_vars

\* uninstalled while the debounce timeout was pending and matches were shown,
\* and the input value changed afterwards
C17_Witness ==
  /\ phase = "uninstalled"
  /\ lastOp = "detached"
  /\ debounceTimer # 0
  /\ sched.started = 0
  /\ timers = {}
  /\ state.matches # <<>>
  /\ hasValue
  /\ Trim(inputValue) = <<>>

\* C18 as claimed: no handler of the tool (install, uninstall, the input and
\* keydown listeners, the timeout callback) lets an exception out or rejects,
\* also when the selector generator or the overlay fails on the current match
\* while the highlight is updated.
C18_NoExceptionEscapes == ~calls.escaped

\* what the three getters return
C20_Stored(cfg) == <<getFactories(cfg), getHighlightCSS(cfg), getHighlightColors(cfg)>>

C21_Overrides(got, d, c) ==
  /\ DOMAIN got = (DOMAIN d) \cup (DOMAIN c)
  /\ \A k \in DOMAIN c : got[k] = c[k]
  /\ \A k \in (DOMAIN d) \ (DOMAIN c) : got[k] = d[k]

\* the keys a customization supplies: none where it gives no colors, and no
\* exports where it gives no module or its module fails to evaluate
C21_Colors(c) == IF c.highlightColors.given THEN c.highlightColors.value ELSE <<>>

C21_Exports(c) ==
  IF c.elementFactories.given /\ ~c.elementFactories.throws
  THEN c.elementFactories.exports ELSE <<>>

C22_SpecificityAllModes ==
  /\ \A i, j \in DOMAIN state.matches : ~IsAncestor(doc, state.matches[i], state.matches[j])
  /\ \A i, j \in DOMAIN state.matches : i < j => state.matches[i] < state.matches[j]

\* C23: every explicit clear -- an empty query, the Escape key, uninstall --
\* leaves the empty SearchState; in particular SearchState is empty after
\* uninstall
C23_ExplicitClearEmpties ==
  lastOp \in {"cleared", "escape", "uninstall"} => state = EmptyState

\* C24: in the tool that renders prev/next buttons, in every state after
\* install, each of the two buttons carries the disabled attribute exactly
\* when matches is empty
C24_ButtonsEnabledIffActive ==
  phase # "constructed" =>
    /\ buttons.created
    /\ buttons.prevDisabled <=> state.matches = <<>>
    /\ buttons.nextDisabled <=> state.matches = <<>>

C24_Witness ==
  /\ phase = "uninstalled"
  /\ lastOp = "ariaDone"
  /\ state.matches # <<>>
  /\ ~buttons.prevDisabled
  /\ ~buttons.nextDisabled

\* the answers of the binding that degrade the aria search
C25_Degrading(d) == {ao \in AriaOutcomes(d) : ao.kind \in {"reject", "error", "nofragment"}}

C25_DegradedEnd ==
  /\ calls.aria.called
  /\ calls.aria.result = <<>>
  /\ ~calls.escaped
  /\ state.matches = <<>>
  /\ state.currentIndex = -1
  /\ noMatch

\* C25 as claimed: an aria search whose binding is absent, reports an error,
\* returns no fragment or rejects yields the empty list and no exception, and
\* its invocation ends with no matches, currentIndex -1 and the no-match flag
\* set.
C25_AriaDegradation ==
  [][/\ lastOp' = "ariaDone" =>
          \A i \in DOMAIN inflight, ao \in C25_Degrading(doc) :
            ResolveAria(i, ao) => C25_DegradedEnd'
     /\ (~ariaBinding /\ lastOp' = "searchDone" /\ calls'.aria.called) => C25_DegradedEnd']_vars

\* C26: with n > 0 matches a next sets currentIndex to (currentIndex + 1) mod n
\* and leaves the rest of SearchState, the counter shows the new index and the
\* overlay holds the new current match alone.
C26_NextStep ==
  [][(state.matches # <<>> /\ lastOp' = "next") =>
       \A key \in {"Enter", "F3"} :
         KeyDown(key, FALSE) =>
           LET n == Len(state.matches)
               new == (state.currentIndex + 1) % n
           IN  /\ state' = [state EXCEPT !.currentIndex = new]
               /\ counter' = DecimalString(new + 1) \o <<"/">> \o DecimalString(n)
               /\ highlight' = << [element |-> state.matches[new + 1]] >>]_vars

C26_Witness ==
  /\ lastOp = "next"
  /\ Len(state.matches) = 3
  /\ run.start = 2
  /\ run.count = 1
  /\ state.currentIndex = 0
  /\ counter = <<"1", "/", "3">>
  /\ highlight = << [element |-> 1] >>

\* C27: with n >= 1 matches and 0 <= currentIndex < n a prev of either tool
\* sets currentIndex to (currentIndex - 1 + n) mod n, and the modular formula
\* of the one and the conditional of the other give that same index.
C27_PrevEquivalence ==
  [][lastOp' = "prev" =>
       LET n == Len(state.matches)
           i == state.currentIndex
           want == (i - 1 + n) % n
       IN  /\ n >= 1 /\ i >= 0 /\ i < n
           /\ state' = [state EXCEPT !.currentIndex = want]
           /\ PrevIndex(i, n) = want
           /\ PrevIndexNav(i, n) = want]_vars

C27_Witness ==
  /\ buttons.created
  /\ lastOp = "prev"
  /\ Len(state.matches) = MaxMatches
  /\ state.currentIndex = MaxMatches - 1
  /\ counter = DecimalString(MaxMatches) \o <<"/">> \o DecimalString(MaxMatches)

\* the list the invocation of the step just taken completed with
C28_Completed(c) ==
  IF c.aria.called THEN c.aria.result
  ELSE IF c.text.called THEN c.text.result
  ELSE c.locator.result

\* C28: an invocation that completes with a non-empty list leaves that list
\* and currentIndex 0, whatever the index was before; one that completes with
\* the empty list leaves no matches and currentIndex -1.
C28_CompletionResets ==
  lastOp \in {"searchDone", "ariaDone"} =>
    /\ state.matches = C28_Completed(calls)
    /\ state.matches # <<>> => state.currentIndex = 0
    /\ state.matches = <<>> => state.currentIndex = -1

C28_Witness ==
  /\ lastOp = "ariaDone"
  /\ state.mode = "aria"
  /\ Len(state.matches) = 2
  /\ state.currentIndex = 0
  /\ counter = <<"1", "/", "2">>
  /\ Len(inflight) = 1

\* the text of every element contains the text of each of its descendants
C29_TextNested(d) ==
  \A a, b \in Elements(d) :
    IsAncestor(d, a, b) => Includes(ElementTextNormalized(d, a), ElementTextNormalized(d, b))

\* the elements whose text matches q and none of whose descendants' text does
C29_MostSpecific(d, q) ==
  {e \in Elements(d) :
     /\ Includes(ToLowerCase(ElementTextNormalized(d, e)), ToLowerCase(q))
     /\ \A b \in Elements(d) :
          IsAncestor(d, e, b) =>
            ~Includes(ToLowerCase(ElementTextNormalized(d, b)), ToLowerCase(q))}

\* C29: on every document in which the text of an element contains the text
\* of its descendants, the text matcher returns exactly the elements whose
\* case-folded normalized text contains the case-folded query and none of
\* whose descendants' text does.
C29_MostSpecificResult ==
  (calls.text.called /\ ~calls.text.failed /\ C29_TextNested(doc)) =>
    {calls.text.result[i] : i \in DOMAIN calls.text.result} = C29_MostSpecific(doc, calls.text.arg)

\* a matching element is left out for a matching descendant, and a matching
\* element with a descendant that does not match is returned
C29_Witness ==
  /\ calls.text.called
  /\ calls.text.arg # <<>>
  /\ C29_TextNested(doc)
  /\ \E e \in Elements(doc) :
       /\ TextMatches(doc, e, calls.text.arg)
       /\ \A i \in DOMAIN calls.text.result : calls.text.result[i] # e
  /\ \E i \in DOMAIN calls.text.result, b \in Elements(doc) :
       /\ IsAncestor(doc, calls.text.result[i], b)
       /\ ~TextMatches(doc, b, calls.text.arg)

\* C30 as claimed: a query the aria rules do not capture is classified as text
\* only when it has at least two characters, its first and its last are the
\* same quote character, and the cleaned query is then what stands between
\* the two.
C30_TextClassification ==
  LET q == calls.detect.arg IN
  (calls.detect.called /\ ~C7_AriaPrefixed(q) /\ ~C7_YamlLike(q) /\ calls.detect.mode = "text") =>
    /\ Len(q) >= 2
    /\ q[1] \in {"\"", "'"}
    /\ q[Len(q)] = q[1]
    /\ calls.detect.searchQuery = SubSeq(q, 2, Len(q) - 1)

\* C31: the text matcher empties the cache before it reads any text, in text
\* mode and in the fallback of auto mode: whatever the page was at the earlier
\* calls, the list a call returns is the one computed from the page as it is
\* now, and every entry the call leaves in the cache was computed from the
\* page as it is now; and the cache changes in no step but one that runs the
\* text matcher.
C31_CacheScopedToCall ==
  [][/\ calls'.text.called =>
          /\ calls'.text.result = _searchByText(doc', calls'.text.arg)
          /\ DOMAIN textCache' = Elements(doc')
          /\ \A e \in DOMAIN textCache' : textCache'[e] = ElementTextFull(doc', e)
     /\ textCache' # textCache => calls'.text.called]_vars

\* the fallback of an auto search run after the page has changed
C31_Witness ==
  /\ lastOp = "searchDone"
  /\ state.mode = "auto"
  /\ calls.text.called
  /\ doc # NestedDoc
  /\ textCache = << <<>>, <<>>, <<"A", " ", "b">> >>
  /\ calls.text.result = <<3>>

\* C32 as claimed: the counter text and the no-match flag are determined by
\* SearchState.  The configuration compared with is the one an Escape pressed
\* now would reach: a configuration whose SearchState is already that one
\* shows the same counter text and the same no-match flag.
C32_PureProjection ==
  LET cleared == _clearSearch(Cur, <<>>) IN
  (phase = "installed" /\ state = cleared.state) =>
    /\ counter = cleared.counter
    /\ noMatch = cleared.noMatch

\* C33: a configureRecorder call on an unconfigured store whose
\* elementFactories string throws when it is evaluated does not throw; after
\* it getFactories() returns the default factories, the highlightCSS and the
\* highlightColors of the call are in force, and the store is configured.
C33_FactoryFailureIsolated ==
  [][\A c \in Customizations :
       (/\ c.elementFactories.given /\ c.elementFactories.throws
        /\ ~getGlobalConfig(config).configured
        /\ ConfigureRecorderCall(c)) =>
         /\ ~configCalls'.threw
         /\ getFactories(config') = defaultElementFactories
         /\ getHighlightCSS(config') =
              IF c.highlightCSS # "" THEN c.highlightCSS ELSE defaultHighlightCSS
         /\ C21_Overrides(getHighlightColors(config'), defaultHighlightColors, C21_Colors(c))
         /\ getGlobalConfig(config').configured]_vars

C33_Witness ==
  /\ lastOp = "configureRecorder"
  /\ configCalls.last.given
  /\ configCalls.last.elementFactories.throws
  /\ ~configCalls.threw
  /\ config.configured
  /\ getFactories(config) = defaultElementFactories
  /\ getHighlightCSS(config) = "custom.css"
  /\ getHighlightColors(config)["single"] = "#ff00ff7f"

\* C34 as claimed: in the step that follows an Escape clear -- no input event
\* has started an invocation since -- SearchState, the counter and the
\* highlight stay empty, whatever was suspended at the aria binding when
\* Escape was pressed
C34_EscapeDiscardsInflight ==
  [][lastOp = "escape" =>
       /\ state' = EmptyState
       /\ counter' = <<>>
       /\ highlight' = <<>>]_vars

\* C35 as claimed: once the tool is uninstalled, no step changes SearchState,
\* the counter or the highlight, also when an invocation was suspended at the
\* aria binding at the moment of uninstall
C35_UninstalledIsInert ==
  [][phase = "uninstalled" => UNCHANGED <<state, counter, highlight>>]_vars

\* C36 as claimed: whenever the locator, aria or text strategy runs, its query
\* argument is a non-empty string, also for inputs such as '""' and '/aria:'
\* whose cleaned query is empty
C36_NoEmptyStrategyQuery ==
  /\ calls.locator.called => calls.locator.arg # <<>>
  /\ calls.aria.called => calls.aria.arg # <<>>
  /\ calls.text.called => calls.text.arg # <<>>

\* C37: Escape was pressed while the debounce timeout was pending and no input
\* event followed (the input is still empty when the timeout fires): the
\* callback of the timeout calls no strategy -- locator, aria, text -- and
\* after it SearchState is the empty state, the counter is empty, the no-match
\* flag is off and nothing is highlighted.
C37_TimerAfterEscapeIsHarmless ==
  [][(inputValue = <<>> /\ sched'.started = sched.started + 1) =>
       \A t \in timers, lo \in EngineOutcomes :
         FireTimer(t, lo) =>
           /\ ~calls'.locator.called
           /\ ~calls'.aria.called
           /\ ~calls'.text.called
           /\ state' = EmptyState
           /\ counter' = <<>>
           /\ ~noMatch'
           /\ highlight' = <<>>
           /\ Len(inflight') = Len(inflight)]_vars

\* the timeout set by an input event has fired on the input Escape emptied
C37_Witness ==
  /\ phase = "installed"
  /\ lastOp = "cleared"
  /\ inputValue = <<>>
  /\ sched.started = 1
  /\ timers = {}
  /\ state = EmptyState
  /\ highlight = <<>>

\* next then prev, and prev then next, applied to what the tool holds and shows
C38_NextPrev == _navigatePrev(_navigateNext(Cur, inputValue), inputValue)

C38_PrevNext == _navigateNext(_navigatePrev(Cur, inputValue), inputValue)

C38_Restored(u) ==
  /\ u.state.currentIndex = state.currentIndex
  /\ u.counter = counter
  /\ u.highlight = highlight

\* C38: in every active state next followed by prev, and prev followed by
\* next, restore currentIndex, the counter text and the highlighted element:
\* for the two handlers applied to any reachable active state, and for a prev
\* keydown that follows a single next keydown (and a next that follows a
\* single prev) against the index and the counter before the pair.
C38_NextPrevInverse ==
  /\ [](state.matches # <<>> => C38_Restored(C38_NextPrev) /\ C38_Restored(C38_PrevNext))
  /\ [][(/\ run.count = 1
         /\ \/ lastOp = "next" /\ lastOp' = "prev"
            \/ lastOp = "prev" /\ lastOp' = "next") =>
          /\ state'.currentIndex = run.start
          /\ counter' = run.counter
          /\ highlight' = << [element |-> state.matches[run.start + 1]] >>
          /\ state'.matches = state.matches]_vars

\* on three matches: next from the last match to the first, and prev back
C38_Witness ==
  /\ lastOp = "prev"
  /\ Len(state.matches) = 3
  /\ run.start = 0
  /\ run.count = 1
  /\ state.currentIndex = 2
  /\ counter = <<"3", "/", "3">>
  /\ highlight = << [element |-> state.matches[3]] >>

\* C39 (navigation frame): a next or a prev keydown changes of SearchState
\* only currentIndex -- query, mode and the matches list with its order stay --
\* and besides it only the counter, the highlight and the scroll; it leaves
\* the input value, the no-match flag and the container classes, starts no
\* invocation, resolves none, and neither sets nor cancels a timeout.
C39_NavigationFrame ==
  [][lastOp' \in {"next", "prev"} =>
       \A key \in {"Enter", "F3"}, shiftKey \in BOOLEAN :
         (lastOp' = C16_Operation(key, shiftKey) /\ KeyDown(key, shiftKey)) =>
           /\ state'.query = state.query
           /\ state'.mode = state.mode
           /\ state'.matches = state.matches
           /\ DOMAIN state' = DOMAIN state
           /\ UNCHANGED <<timers, debounceTimer, inflight, sched, inputValue, phase>>
           /\ ~calls'.detect.called
           /\ ~calls'.locator.called
           /\ ~calls'.aria.called
           /\ ~calls'.text.called]_vars

\* prev on three matches while a timeout is pending and an invocation is
\* suspended at the binding
C39_Witness ==
  /\ lastOp = "prev"
  /\ Len(state.matches) >= 2
  /\ state.currentIndex = Len(state.matches) - 1
  /\ timers # {}
  /\ debounceTimer # 0
  /\ inflight # <<>>
  /\ calls.scroll = <<state.matches[Len(state.matches)]>>

\* query, mode and matches a search of the input value v can end with, over
\* everything the selector engine and the aria binding may answer
C40_Searched(v) ==
  LET query == Trim(v)
      det == _detectSearchMode(query)
      empty == [query |-> <<>>, mode |-> "auto", matches |-> <<>>]
  IN  IF query = <<>> THEN {empty}
      ELSE IF det.mode = "aria" /\ ariaBinding
      THEN {[query |-> det.searchQuery, mode |-> det.mode, matches |-> _searchByAriaAsync(ao)] :
              ao \in AriaOutcomes(doc)}
      ELSE {IF Dispatch(doc, det.mode, det.searchQuery, lo).threw THEN empty
            ELSE [query |-> det.searchQuery, mode |-> det.mode,
                  matches |-> Dispatch(doc, det.mode, det.searchQuery, lo).matches] :
              lo \in LocatorOutcomes(doc)}

C40_Consistent(v) ==
  [query |-> state.query, mode |-> state.mode, matches |-> state.matches] \in C40_Searched(v)

\* C40 as claimed: when the tool stays installed and the input value stays v
\* from some point on (input events and Escape have stopped), timers fire and
\* the binding answers every call, then from some point on SearchState is the
\* result of searching v -- the empty state if v is blank
C40_EventualConsistency ==
  \A v \in LiveInputs :
    <>[](phase = "installed" /\ inputValue = v) => <>[]C40_Consistent(v)

====
